---- MODULE Spec2Model ----
(***************************************************************************)
(* Static data-race analyser for SMALL + spawn/await.                      *)
(*                                                                         *)
(* The model follows analyze_program (engine.py): the spawn/await          *)
(* constraint check, the effect fixed point (effects.py), the escape       *)
(* analysis, the statement walk that maintains the ConcurState             *)
(* (concurrency.py) and queries the conflict checker (conflicts.py), and   *)
(* the final sort of the warning set.                                      *)
(*                                                                         *)
(* Python values are represented as follows:                               *)
(*   - a dict is a function whose DOMAIN is its key set;                   *)
(*   - a set is a set; a list / tuple is a sequence;                       *)
(*   - an f-string is a record of the values it interpolates plus a tag    *)
(*     for its fixed text (two f-strings are equal iff the records are);   *)
(*   - None, as a handle, is the empty string (no identifier is empty).    *)
(***************************************************************************)
EXTENDS Integers, Sequences, FiniteSets, TLC

(***************************************************************************)
(* Abstract syntax tree (abstract_syntax_tree.py).  Expression lines are   *)
(* not kept: the analysis only reads statement lines.                      *)
(***************************************************************************)
NoHandle == ""

Var(n) == [k |-> "Var", name |-> n]

Num(v) == [k |-> "Num", value |-> v]

Bool(b) == [k |-> "Bool", flag |-> b]

BinOp(op, l, r) == [k |-> "BinOp", op |-> op, left |-> l, right |-> r]

RelOp(op, l, r) == [k |-> "RelOp", op |-> op, left |-> l, right |-> r]

Assign(ln, t, e) == [k |-> "Assign", line |-> ln, target |-> t, expr |-> e]

AssignCall(ln, t, f, as) ==
    [k |-> "AssignCall", line |-> ln, target |-> t, func |-> f, args |-> as]

CallStmt(ln, f, as) == [k |-> "CallStmt", line |-> ln, func |-> f, args |-> as]

SpawnCall(f, as) == [k |-> "SpawnCall", func |-> f, args |-> as]

SpawnBlock(b) == [k |-> "SpawnBlock", body |-> b]

Spawn(ln, h, tg) == [k |-> "Spawn", line |-> ln, handle |-> h, target |-> tg]

Await(ln, h) == [k |-> "Await", line |-> ln, handle |-> h]

If(ln, c, t, e) == [k |-> "If", line |-> ln, cond |-> c, then_s |-> t, else_s |-> e]

While(ln, c, b) == [k |-> "While", line |-> ln, cond |-> c, body |-> b]

Seq_(ln, ss) == [k |-> "Seq", line |-> ln, stmts |-> ss]

Return(ln, e) == [k |-> "Return", line |-> ln, expr |-> e]

FunctionDef(n, ps, b, ln) == [name |-> n, params |-> ps, body |-> b, line |-> ln]

(* Program.functions is a dict kept in insertion order: a sequence of       *)
(* FunctionDef with pairwise different names.                              *)
FuncNames(prog) == {prog[i].name : i \in 1..Len(prog)}

FuncDef(prog, n) == prog[CHOOSE i \in 1..Len(prog) : prog[i].name = n]

(***************************************************************************)
(* effects.py                                                              *)
(***************************************************************************)
RECURSIVE vars_in_expr(_)
vars_in_expr(e) ==
    IF e.k = "Var" THEN {e.name}
    ELSE IF e.k \in {"Num", "Bool"} THEN {}
    ELSE vars_in_expr(e.left) \cup vars_in_expr(e.right)

RECURSIVE vars_in_args(_)
vars_in_args(as) ==
    IF as = <<>> THEN {}
    ELSE vars_in_expr(Head(as)) \cup vars_in_args(Tail(as))

EmptyDict == [x \in {} |-> {}]

\* d.get(key, set())
get(d, key) == IF key \in DOMAIN d THEN d[key] ELSE {}

\* d.setdefault(key, set()).update(vs)
setdefault_update(d, key, vs) ==
    [x \in DOMAIN d \cup {key} |-> IF x = key THEN get(d, x) \cup vs ELSE d[x]]

\* for k, v in other.items(): d.setdefault(k, set()).update(v)
merge_sites(d, other) ==
    [x \in DOMAIN d \cup DOMAIN other |-> get(d, x) \cup get(other, x)]

Effect == [reads |-> {}, writes |-> {}, read_sites |-> EmptyDict, write_sites |-> EmptyDict]

add_read(eff, v, ln) ==
    [eff EXCEPT !.reads = @ \cup {v},
                !.read_sites = setdefault_update(@, v, {ln})]

\* add_write without the update of write_sites
add_write_no_site(eff, v, ln) == [eff EXCEPT !.writes = @ \cup {v}]

add_write(eff, v, ln) ==
    [eff EXCEPT !.writes = @ \cup {v},
                !.write_sites = setdefault_update(@, v, {ln})]

\* for v in vs: eff.add_read(v, ln)
add_reads(eff, vs, ln) ==
    [eff EXCEPT !.reads = @ \cup vs,
                !.read_sites = merge_sites(@, [x \in vs |-> {ln}])]

\* union with ^ in place of | on the two sets
union_xor(self, other) ==
    [reads |-> (self.reads \cup other.reads) \ (self.reads \cap other.reads),
     writes |-> (self.writes \cup other.writes) \ (self.writes \cap other.writes),
     read_sites |-> merge_sites(self.read_sites, other.read_sites),
     write_sites |-> merge_sites(self.write_sites, other.write_sites)]

union(self, other) ==
    [reads |-> self.reads \cup other.reads,
     writes |-> self.writes \cup other.writes,
     read_sites |-> merge_sites(self.read_sites, other.read_sites),
     write_sites |-> merge_sites(self.write_sites, other.write_sites)]

\* equals comparing the sets of names only, not the sites
equals_names_only(self, other) ==
    /\ self.reads = other.reads
    /\ self.writes = other.writes

equals(self, other) ==
    /\ self.reads = other.reads
    /\ self.writes = other.writes
    /\ self.read_sites = other.read_sites
    /\ self.write_sites = other.write_sites

(* mapping[p] of substitute_effect: the variables of the actual at the last *)
(* position at which p is a formal (a later dict assignment overwrites an   *)
(* earlier one), the empty set when that actual is missing.                 *)
param_mapping(callee_def, actual_args, p) ==
    LET i == CHOOSE j \in 1..Len(callee_def.params) :
                 /\ callee_def.params[j] = p
                 /\ \A m \in (j + 1)..Len(callee_def.params) : callee_def.params[m] # p
    IN  IF i <= Len(actual_args) THEN vars_in_expr(actual_args[i]) ELSE {}

\* mapping.get(v, set()) | {v}: the formal is kept among its targets
subst_targets_keeps_formal(callee_def, actual_args, v) ==
    IF \E j \in 1..Len(callee_def.params) : callee_def.params[j] = v
    THEN param_mapping(callee_def, actual_args, v) \cup {v}
    ELSE {v}

\* mapping.get(v, {v})
subst_targets(callee_def, actual_args, v) ==
    IF \E j \in 1..Len(callee_def.params) : callee_def.params[j] = v
    THEN param_mapping(callee_def, actual_args, v)
    ELSE {v}

(* One half of substitute_effect: out.add_read(tv, ln) (add_write) for every *)
(* v of vs, every target tv of v and every line ln of sites.get(v, set()).   *)
subst_sites(vs, sites, callee_def, actual_args) ==
    LET pairs == {<<tv, v>> \in
                     UNION {subst_targets(callee_def, actual_args, v) \X {v} : v \in vs} :
                     get(sites, v) # {}}
        tvs == {pr[1] : pr \in pairs}
    IN  [tv \in tvs |-> UNION {get(sites, pr[2]) : pr \in {q \in pairs : q[1] = tv}}]

substitute_effect(callee, callee_def, actual_args) ==
    LET rs == subst_sites(callee.reads, callee.read_sites, callee_def, actual_args)
        ws == subst_sites(callee.writes, callee.write_sites, callee_def, actual_args)
    IN  [reads |-> DOMAIN rs, writes |-> DOMAIN ws, read_sites |-> rs, write_sites |-> ws]

RECURSIVE compute_effect_stmt(_, _, _)
RECURSIVE compute_effect_stmts(_, _, _)

\* the loop of compute_effect_seq (and of the Seq case) over a list of statements
compute_effect_stmts(stmts, prog, effects) ==
    IF stmts = <<>> THEN Effect
    ELSE union(compute_effect_stmt(Head(stmts), prog, effects),
               compute_effect_stmts(Tail(stmts), prog, effects))

compute_effect_seq(seq, prog, effects) == compute_effect_stmts(seq.stmts, prog, effects)

compute_effect_stmt(stmt, prog, effects) ==
    CASE stmt.k = "Assign" ->
           add_write(add_reads(Effect, vars_in_expr(stmt.expr), stmt.line),
                     stmt.target, stmt.line)
      [] stmt.k = "AssignCall" ->
           add_write(union(add_reads(Effect, vars_in_args(stmt.args), stmt.line),
                           substitute_effect(effects[stmt.func],
                                             FuncDef(prog, stmt.func), stmt.args)),
                     stmt.target, stmt.line)
      [] stmt.k = "CallStmt" ->
           union(add_reads(Effect, vars_in_args(stmt.args), stmt.line),
                 substitute_effect(effects[stmt.func], FuncDef(prog, stmt.func), stmt.args))
      [] stmt.k = "Spawn" ->
           LET eff == IF stmt.handle # NoHandle
                      THEN add_write(Effect, stmt.handle, stmt.line)
                      ELSE Effect
           IN  IF stmt.target.k = "SpawnCall"
               THEN union(add_reads(eff, vars_in_args(stmt.target.args), stmt.line),
                          substitute_effect(effects[stmt.target.func],
                                            FuncDef(prog, stmt.target.func),
                                            stmt.target.args))
               ELSE union(eff, compute_effect_seq(stmt.target.body, prog, effects))
      [] stmt.k = "Await" -> Effect
      [] stmt.k = "Return" -> add_reads(Effect, vars_in_expr(stmt.expr), stmt.line)
      [] stmt.k = "Seq" -> compute_effect_stmts(stmt.stmts, prog, effects)
      [] stmt.k = "If" ->
           union(union(add_reads(Effect, vars_in_expr(stmt.cond), stmt.line),
                       compute_effect_stmt(stmt.then_s, prog, effects)),
                 compute_effect_stmt(stmt.else_s, prog, effects))
      [] stmt.k = "While" ->
           union(add_reads(Effect, vars_in_expr(stmt.cond), stmt.line),
                 compute_effect_stmt(stmt.body, prog, effects))

(***************************************************************************)
(* constraints.py                                                          *)
(***************************************************************************)
RECURSIVE enforce_no_spawn_await_in_if_while(_, _)
RECURSIVE enforce_stmts(_, _)

\* the loop of the Seq case
enforce_stmts(stmts, inside_control) ==
    IF stmts = <<>> THEN <<>>
    ELSE enforce_no_spawn_await_in_if_while(Head(stmts), inside_control)
             \o enforce_stmts(Tail(stmts), inside_control)

(* The lines at which the check raises ValueError, in the order of the      *)
(* traversal: the call raises at the first one, and returns normally when   *)
(* the sequence is empty.  A Spawn is a leaf of the traversal: the body of  *)
(* a spawn block is not visited.                                            *)
enforce_no_spawn_await_in_if_while(stmt, inside_control) ==
    IF stmt.k \in {"Spawn", "Await"} /\ inside_control THEN <<stmt.line>>
    ELSE IF stmt.k = "Seq" THEN enforce_stmts(stmt.stmts, inside_control)
    ELSE IF stmt.k = "If"
         THEN enforce_no_spawn_await_in_if_while(stmt.then_s, TRUE)
                  \o enforce_no_spawn_await_in_if_while(stmt.else_s, TRUE)
    ELSE IF stmt.k = "While" THEN enforce_no_spawn_await_in_if_while(stmt.body, TRUE)
    ELSE <<>>

RECURSIVE list_spawns(_)
RECURSIVE list_spawns_of(_)

list_spawns_of(stmts) ==
    IF stmts = <<>> THEN <<>> ELSE list_spawns(Head(stmts)) \o list_spawns_of(Tail(stmts))

\* list_spawns_awaits going also through the body of a spawn block
list_spawns_in_blocks(stmt) ==
    IF stmt.k = "Spawn"
    THEN <<stmt>> \o (IF stmt.target.k = "SpawnBlock"
                      THEN list_spawns(stmt.target.body) ELSE <<>>)
    ELSE IF stmt.k = "Seq" THEN list_spawns_of(stmt.stmts)
    ELSE <<>>

\* first component of list_spawns_awaits: the Spawn statements, through Seq only
list_spawns(stmt) ==
    IF stmt.k = "Spawn" THEN <<stmt>>
    ELSE IF stmt.k = "Seq" THEN list_spawns_of(stmt.stmts)
    ELSE <<>>

RECURSIVE list_awaits(_)
RECURSIVE list_awaits_of(_)

list_awaits_of(stmts) ==
    IF stmts = <<>> THEN <<>> ELSE list_awaits(Head(stmts)) \o list_awaits_of(Tail(stmts))

\* second component of list_spawns_awaits: the Await statements, through Seq only
list_awaits(stmt) ==
    IF stmt.k = "Await" THEN <<stmt>>
    ELSE IF stmt.k = "Seq" THEN list_awaits_of(stmt.stmts)
    ELSE <<>>

(***************************************************************************)
(* concurrency.py                                                          *)
(***************************************************************************)
\* f"{fn}:{base}@{line}"
ThreadId(fn, base, ln) == [esc |-> FALSE, fn |-> fn, base |-> base, line |-> ln, call |-> 0]

\* f"escaped:{t.thread_id}@call{line}"
EscapedId(tid, ln) == [tid EXCEPT !.esc = TRUE, !.call = ln]

\* f"spawn {func}(...) in {fn}", f"spawn {block} in {fn}" and the "escaped spawn" forms
Desc(tag, callee, fn) == [tag |-> tag, callee |-> callee, fn |-> fn]

threadinfo_from_effect(eff, tid, desc, spawn_line) ==
    [thread_id |-> tid, desc |-> desc, spawn_line |-> spawn_line,
     reads |-> eff.reads, writes |-> eff.writes,
     read_sites |-> eff.read_sites, write_sites |-> eff.write_sites]

ConcurState == [active |-> EmptyDict, handle_env |-> EmptyDict]

(* ConcurState.copy: a new dict of the same ThreadInfo objects and new sets *)
(* of thread ids.  No ThreadInfo is mutated after its construction         *)
(* (join_states builds a new one), so the copy is the same value.          *)
copy(self) ==
    [active |-> [t \in DOMAIN self.active |-> self.active[t]],
     handle_env |-> [h \in DOMAIN self.handle_env |-> self.handle_env[h]]]

merge_thread(o, t) ==
    [thread_id |-> o.thread_id, desc |-> o.desc, spawn_line |-> o.spawn_line,
     reads |-> o.reads \cup t.reads,
     writes |-> o.writes \cup t.writes,
     read_sites |-> merge_sites(o.read_sites, t.read_sites),
     write_sites |-> merge_sites(o.write_sites, t.write_sites)]

\* join_states binding a handle to the thread ids both states bind it to
join_states_common_bindings(a, b) ==
    [active |-> [tid \in DOMAIN a.active \cup DOMAIN b.active |->
                    IF tid \in DOMAIN b.active
                    THEN IF tid \in DOMAIN a.active
                         THEN merge_thread(a.active[tid], b.active[tid])
                         ELSE b.active[tid]
                    ELSE a.active[tid]],
     handle_env |-> [h \in DOMAIN a.handle_env \cup DOMAIN b.handle_env |->
                        get(a.handle_env, h) \cap get(b.handle_env, h)]]

\* join_states keeping, for a thread of both states, the ThreadInfo of a
join_states_keeps_left(a, b) ==
    [active |-> [tid \in DOMAIN a.active \cup DOMAIN b.active |->
                    IF tid \in DOMAIN a.active THEN a.active[tid] ELSE b.active[tid]],
     handle_env |-> merge_sites(a.handle_env, b.handle_env)]

join_states(a, b) ==
    [active |-> [tid \in DOMAIN a.active \cup DOMAIN b.active |->
                    IF tid \in DOMAIN b.active
                    THEN IF tid \in DOMAIN a.active
                         THEN merge_thread(a.active[tid], b.active[tid])
                         ELSE b.active[tid]
                    ELSE a.active[tid]],
     handle_env |-> merge_sites(a.handle_env, b.handle_env)]

(***************************************************************************)
(* conflicts.py                                                            *)
(***************************************************************************)
RaceWarning(var, kind, line_a, ctx_a, lines_b, ctx_b) ==
    [var |-> var, kind |-> kind, line_a |-> line_a, ctx_a |-> ctx_a,
     lines_b |-> lines_b, ctx_b |-> ctx_b]

mode_for(var, reads, writes) ==
    IF var \in reads /\ var \in writes THEN "RW"
    ELSE IF var \in reads THEN "R"
    ELSE IF var \in writes THEN "W"
    ELSE "None"

\* f"{mode} vs T"
kind_of(mode) == mode \o " vs T"

collect_other_lines(t, var) ==
    LET lines == (IF var \in t.writes THEN get(t.write_sites, var) ELSE {})
                     \cup (IF var \in t.reads THEN get(t.read_sites, var) ELSE {})
    IN  IF lines = {} THEN {t.spawn_line} ELSE lines

\* conflicts with the write cases testing the writes of the thread only
conflicts_writes_only(mode, t, var) ==
    IF mode = "R" THEN var \in t.writes
    ELSE IF mode \in {"W", "RW"} THEN var \in t.writes
    ELSE FALSE

\* conflicts with the read case testing the reads of the thread
conflicts_reads_only(mode, t, var) ==
    IF mode = "R" THEN var \in t.reads
    ELSE IF mode \in {"W", "RW"} THEN (var \in t.writes) \/ (var \in t.reads)
    ELSE FALSE

conflicts(mode, t, var) ==
    IF mode = "R" THEN var \in t.writes
    ELSE IF mode \in {"W", "RW"} THEN (var \in t.writes) \/ (var \in t.reads)
    ELSE FALSE

RECURSIVE sorted_lines(_)
\* tuple(sorted(lines))
sorted_lines(lines) ==
    IF lines = {} THEN <<>>
    ELSE LET m == CHOOSE x \in lines : \A y \in lines : x <= y
         IN  <<m>> \o sorted_lines(lines \ {m})

\* the fixed text of a context string with the values it interpolates
Ctx(tag, who, mode, callee, ln) ==
    [tag |-> tag, who |-> who, mode |-> mode, callee |-> callee, line |-> ln]

\* f"{t.desc} (spawn line {t.spawn_line})" and the halves of the thread/thread context
ThreadCtx(t) == [desc |-> t.desc, spawn |-> t.spawn_line]

\* the warnings of the returned list (they all go into the warning set)
check_access(state, var, mode, ln, ctx) ==
    {RaceWarning(var, kind_of(mode), ln, ctx,
                 sorted_lines(collect_other_lines(state.active[tid], var)),
                 <<ThreadCtx(state.active[tid])>>) :
        tid \in {t \in DOMAIN state.active : conflicts(mode, state.active[t], var)}}

\* check_thread_thread with the overlap taken over every variable the two threads share
check_thread_thread_any_overlap(newt, oldt, discover_line) ==
    LET overlap == (newt.reads \cup newt.writes) \cap (oldt.reads \cup oldt.writes)
    IN  {RaceWarning(var, "T vs T", discover_line,
                     Ctx("concurrent threads overlap starting at spawn line", "", "", "",
                         discover_line),
                     sorted_lines(collect_other_lines(oldt, var)
                                      \cup collect_other_lines(newt, var)),
                     <<ThreadCtx(oldt), ThreadCtx(newt)>>) : var \in overlap}

\* check_thread_thread with the overlap reduced to the writes of the old thread
check_thread_thread_old_writes(newt, oldt, discover_line) ==
    LET overlap == (newt.reads \cup newt.writes) \cap oldt.writes
    IN  {RaceWarning(var, "T vs T", discover_line,
                     Ctx("concurrent threads overlap starting at spawn line", "", "", "",
                         discover_line),
                     sorted_lines(collect_other_lines(oldt, var)
                                      \cup collect_other_lines(newt, var)),
                     <<ThreadCtx(oldt), ThreadCtx(newt)>>) : var \in overlap}

\* check_thread_thread with the overlap reduced to the writes of the new thread
check_thread_thread_new_writes(newt, oldt, discover_line) ==
    LET overlap == newt.writes \cap (oldt.reads \cup oldt.writes)
    IN  {RaceWarning(var, "T vs T", discover_line,
                     Ctx("concurrent threads overlap starting at spawn line", "", "", "",
                         discover_line),
                     sorted_lines(collect_other_lines(oldt, var)
                                      \cup collect_other_lines(newt, var)),
                     <<ThreadCtx(oldt), ThreadCtx(newt)>>) : var \in overlap}

check_thread_thread(newt, oldt, discover_line) ==
    LET overlap == (newt.writes \cap (oldt.reads \cup oldt.writes))
                       \cup (newt.reads \cap oldt.writes)
    IN  {RaceWarning(var, "T vs T", discover_line,
                     Ctx("concurrent threads overlap starting at spawn line", "", "", "",
                         discover_line),
                     sorted_lines(collect_other_lines(oldt, var)
                                      \cup collect_other_lines(newt, var)),
                     <<ThreadCtx(oldt), ThreadCtx(newt)>>) : var \in overlap}

(***************************************************************************)
(* engine.py                                                               *)
(***************************************************************************)
\* awaited = {a.handle for a in awaits}
awaited_handles(fdef) ==
    {list_awaits(fdef.body)[i].handle : i \in 1..Len(list_awaits(fdef.body))}

\* the ThreadInfo compute_escaping_threads builds for an escaping spawn s of fdef
escaping_thread(s, fdef, prog, effects) ==
    IF s.target.k = "SpawnCall"
    THEN threadinfo_from_effect(
             substitute_effect(effects[s.target.func], FuncDef(prog, s.target.func),
                               s.target.args),
             ThreadId(fdef.name, s.handle, s.line),
             Desc("escaped spawn", s.target.func, fdef.name), s.line)
    ELSE threadinfo_from_effect(
             compute_effect_seq(s.target.body, prog, effects),
             ThreadId(fdef.name, s.handle, s.line),
             Desc("escaped spawn", "{block}", fdef.name), s.line)

RECURSIVE escaping_threads_of(_, _, _, _)
\* the loop over the spawns of one function: a list in the order of the spawns
escaping_threads_of(spawns, fdef, prog, effects) ==
    IF spawns = <<>> THEN <<>>
    ELSE LET s == Head(spawns)
             rest == escaping_threads_of(Tail(spawns), fdef, prog, effects)
         IN  IF s.handle = NoHandle \/ s.handle \in awaited_handles(fdef)
             THEN rest
             ELSE <<escaping_thread(s, fdef, prog, effects)>> \o rest

RECURSIVE escaping_threads_of_calls(_, _, _)
\* the escaping threads of the functions the statements call
escaping_threads_of_calls(stmts, prog, effects) ==
    IF stmts = <<>> THEN <<>>
    ELSE LET s == Head(stmts)
             rest == escaping_threads_of_calls(Tail(stmts), prog, effects)
         IN  IF s.k \in {"CallStmt", "AssignCall"} /\ s.func \in FuncNames(prog)
             THEN escaping_threads_of(list_spawns(FuncDef(prog, s.func).body),
                                      FuncDef(prog, s.func), prog, effects) \o rest
             ELSE rest

\* compute_escaping_threads with esc[fname] holding also the threads that escape the
\* functions fname calls
compute_escaping_threads_through_calls(prog, effects) ==
    [fname \in FuncNames(prog) |->
        escaping_threads_of(list_spawns(FuncDef(prog, fname).body),
                            FuncDef(prog, fname), prog, effects)
            \o escaping_threads_of_calls(FuncDef(prog, fname).body.stmts, prog, effects)]

compute_escaping_threads(prog, effects) ==
    [fname \in FuncNames(prog) |->
        escaping_threads_of(list_spawns(FuncDef(prog, fname).body),
                            FuncDef(prog, fname), prog, effects)]

\* what analyze_stmt leaves behind: the state it returns and the warning set
Outcome(st, ws) == [state |-> st, warnings |-> ws]

\* the reset of Assign without its test: state.handle_env[target] = set()
reset_handle_sets_key(state, target) ==
    [state EXCEPT !.handle_env = [h \in DOMAIN state.handle_env \cup {target} |->
                                     IF h = target THEN {} ELSE state.handle_env[h]]]

\* if target in state.handle_env: state.handle_env[target] = set()
reset_handle(state, target) ==
    IF target \in DOMAIN state.handle_env
    THEN [state EXCEPT !.handle_env[target] = {}]
    ELSE state

\* for var in sorted(vs): add_all(check_access(state, var, "R", line, ctx))
check_reads(state, vs, ln, ctx) ==
    UNION {check_access(state, var, "R", ln, ctx) : var \in vs}

analyze_Assign(stmt, current_func, state, warnings) ==
    LET st == reset_handle(state, stmt.target)
        reads == vars_in_expr(stmt.expr)
        writes == {stmt.target}
    IN  Outcome(st,
                warnings \cup UNION {
                    check_access(st, var, mode_for(var, reads, writes), stmt.line,
                                 Ctx("at line", current_func.name,
                                     mode_for(var, reads, writes), "", stmt.line)) :
                    var \in reads \cup writes})

\* the checks of the substituted callee effect, common to AssignCall and CallStmt
check_callee_effect(stmt, callee_eff, current_func, state) ==
    UNION {
        LET m == mode_for(var, callee_eff.reads, callee_eff.writes)
            sites == get(callee_eff.read_sites, var) \cup get(callee_eff.write_sites, var)
            lines == IF sites = {} THEN {stmt.line} ELSE sites
            ln == CHOOSE x \in lines : \A y \in lines : x <= y
        IN  check_access(state, var, m, ln,
                         Ctx("during call from", stmt.func, m, current_func.name,
                             stmt.line)) :
        var \in callee_eff.reads \cup callee_eff.writes}

\* escapes.get(func, [])
escapes_get(escapes, func) == IF func \in DOMAIN escapes THEN escapes[func] ELSE <<>>

RECURSIVE install_escaped(_, _, _, _)
\* for t in escapes.get(stmt.func, []): state.active[tid] = threadinfo_from_effect(...)
install_escaped(ts, stmt, callee_def, state) ==
    IF ts = <<>> THEN state
    ELSE LET t == Head(ts)
             base == [reads |-> t.reads, writes |-> t.writes,
                      read_sites |-> t.read_sites, write_sites |-> t.write_sites]
             sub == substitute_effect(base, callee_def, stmt.args)
             tid == EscapedId(t.thread_id, stmt.line)
             newt == threadinfo_from_effect(sub, tid, t.desc, t.spawn_line)
             st == [state EXCEPT !.active =
                       [x \in DOMAIN @ \cup {tid} |-> IF x = tid THEN newt ELSE @[x]]]
         IN  install_escaped(Tail(ts), stmt, callee_def, st)

analyze_AssignCall(stmt, prog, effects, escapes, current_func, state, warnings) ==
    LET st == reset_handle(state, stmt.target)
        callee_def == FuncDef(prog, stmt.func)
        callee_eff == substitute_effect(effects[stmt.func], callee_def, stmt.args)
    IN  Outcome(install_escaped(escapes_get(escapes, stmt.func), stmt, callee_def, st),
                warnings
                    \cup check_reads(st, vars_in_args(stmt.args), stmt.line,
                                     Ctx("R(arg) at call site line", current_func.name,
                                         "R", "", stmt.line))
                    \cup check_callee_effect(stmt, callee_eff, current_func, st)
                    \cup check_access(st, stmt.target, "W", stmt.line,
                                      Ctx("W(ret) at line", current_func.name, "W", "",
                                          stmt.line)))

\* the CallStmt case with the escaped threads installed before the checks are made
analyze_CallStmt_installs_first(stmt, prog, effects, escapes, current_func, state, warnings) ==
    LET callee_def == FuncDef(prog, stmt.func)
        callee_eff == substitute_effect(effects[stmt.func], callee_def, stmt.args)
        st == install_escaped(escapes_get(escapes, stmt.func), stmt, callee_def, state)
    IN  Outcome(st,
                warnings
                    \cup check_reads(st, vars_in_args(stmt.args), stmt.line,
                                     Ctx("R(arg) at call site line", current_func.name,
                                         "R", "", stmt.line))
                    \cup check_callee_effect(stmt, callee_eff, current_func, st))

analyze_CallStmt(stmt, prog, effects, escapes, current_func, state, warnings) ==
    LET callee_def == FuncDef(prog, stmt.func)
        callee_eff == substitute_effect(effects[stmt.func], callee_def, stmt.args)
    IN  Outcome(install_escaped(escapes_get(escapes, stmt.func), stmt, callee_def, state),
                warnings
                    \cup check_reads(state, vars_in_args(stmt.args), stmt.line,
                                     Ctx("R(arg) at call site line", current_func.name,
                                         "R", "", stmt.line))
                    \cup check_callee_effect(stmt, callee_eff, current_func, state))

\* tid_base of a Spawn
tid_base(stmt) ==
    IF stmt.handle # NoHandle THEN stmt.handle
    ELSE IF stmt.target.k = "SpawnCall" THEN stmt.target.func
    ELSE "_anon"

\* the ThreadInfo newt of a Spawn walked in current_func
spawned_thread(stmt, prog, effects, current_func) ==
    IF stmt.target.k = "SpawnCall"
    THEN threadinfo_from_effect(
             substitute_effect(effects[stmt.target.func],
                               FuncDef(prog, stmt.target.func), stmt.target.args),
             ThreadId(current_func.name, tid_base(stmt), stmt.line),
             Desc("spawn", stmt.target.func, current_func.name), stmt.line)
    ELSE threadinfo_from_effect(
             compute_effect_seq(stmt.target.body, prog, effects),
             ThreadId(current_func.name, tid_base(stmt), stmt.line),
             Desc("spawn", "{block}", current_func.name), stmt.line)

\* the binding with state.handle_env[key] = {tid} in place of setdefault(key, set()).add(tid)
bind_handle_replaces(stmt, state, tid) ==
    LET key == IF stmt.handle # NoHandle THEN stmt.handle ELSE stmt.target.func
    IN  IF stmt.handle # NoHandle \/ stmt.target.k = "SpawnCall"
        THEN [state EXCEPT !.handle_env =
                 [h \in DOMAIN @ \cup {key} |-> IF h = key THEN {tid} ELSE @[h]]]
        ELSE state

\* state.handle_env.setdefault(key, set()).add(tid), under the handle or the callee name
bind_handle(stmt, state, tid) ==
    IF stmt.handle # NoHandle
    THEN [state EXCEPT !.handle_env = setdefault_update(@, stmt.handle, {tid})]
    ELSE IF stmt.target.k = "SpawnCall"
         THEN [state EXCEPT !.handle_env = setdefault_update(@, stmt.target.func, {tid})]
         ELSE state

\* the Spawn case with the new thread activated before the checks are made
analyze_Spawn_installs_first(stmt, prog, effects, current_func, state, warnings) ==
    LET st0 == IF stmt.handle # NoHandle THEN reset_handle(state, stmt.handle) ELSE state
        newt == spawned_thread(stmt, prog, effects, current_func)
        tid == newt.thread_id
        st == [st0 EXCEPT !.active =
                  [x \in DOMAIN @ \cup {tid} |-> IF x = tid THEN newt ELSE @[x]]]
        w_handle == IF stmt.handle # NoHandle
                    THEN check_access(st, stmt.handle, "W", stmt.line,
                                      Ctx("W(handle) at spawn line", current_func.name,
                                          "W", "", stmt.line))
                    ELSE {}
        w_args == IF stmt.target.k = "SpawnCall"
                  THEN check_reads(st, vars_in_args(stmt.target.args), stmt.line,
                                   Ctx("R(arg) at spawn line", current_func.name, "R", "",
                                       stmt.line))
                  ELSE {}
        w_threads == UNION {check_thread_thread(newt, st.active[old], stmt.line) :
                               old \in DOMAIN st.active}
    IN  Outcome(bind_handle(stmt, st, tid),
                warnings \cup w_handle \cup w_args \cup w_threads)

analyze_Spawn(stmt, prog, effects, current_func, state, warnings) ==
    LET st == IF stmt.handle # NoHandle THEN reset_handle(state, stmt.handle) ELSE state
        w_handle == IF stmt.handle # NoHandle
                    THEN check_access(st, stmt.handle, "W", stmt.line,
                                      Ctx("W(handle) at spawn line", current_func.name,
                                          "W", "", stmt.line))
                    ELSE {}
        w_args == IF stmt.target.k = "SpawnCall"
                  THEN check_reads(st, vars_in_args(stmt.target.args), stmt.line,
                                   Ctx("R(arg) at spawn line", current_func.name, "R", "",
                                       stmt.line))
                  ELSE {}
        newt == spawned_thread(stmt, prog, effects, current_func)
        tid == newt.thread_id
        w_threads == UNION {check_thread_thread(newt, st.active[old], stmt.line) :
                               old \in DOMAIN st.active}
        activated == [st EXCEPT !.active =
                         [x \in DOMAIN @ \cup {tid} |-> IF x = tid THEN newt ELSE @[x]]]
    IN  Outcome(bind_handle(stmt, activated, tid),
                warnings \cup w_handle \cup w_args \cup w_threads)

\* the Await case without state.active.pop(tid, None)
analyze_Await_keeps_active(stmt, state, warnings) ==
    Outcome([active |-> state.active,
             handle_env |-> [h \in DOMAIN state.handle_env \cup {stmt.handle} |->
                                IF h = stmt.handle THEN {} ELSE state.handle_env[h]]],
            warnings)

\* the Await case without state.handle_env[stmt.handle] = set()
analyze_Await_keeps_binding(stmt, state, warnings) ==
    LET tids == get(state.handle_env, stmt.handle)
    IN  Outcome([active |-> [t \in DOMAIN state.active \ tids |-> state.active[t]],
                 handle_env |-> state.handle_env],
                warnings)

\* the Await case emptying state.active
analyze_Await_joins_all(stmt, state, warnings) ==
    Outcome([active |-> EmptyDict,
             handle_env |-> [h \in DOMAIN state.handle_env \cup {stmt.handle} |->
                                IF h = stmt.handle THEN {} ELSE state.handle_env[h]]],
            warnings)

analyze_Await(stmt, state, warnings) ==
    LET tids == get(state.handle_env, stmt.handle)
    IN  Outcome([active |-> [t \in DOMAIN state.active \ tids |-> state.active[t]],
                 handle_env |-> [h \in DOMAIN state.handle_env \cup {stmt.handle} |->
                                    IF h = stmt.handle THEN {} ELSE state.handle_env[h]]],
                warnings)

analyze_Return(stmt, current_func, state, warnings) ==
    Outcome(state,
            warnings \cup check_reads(state, vars_in_expr(stmt.expr), stmt.line,
                                      Ctx("R(return) at line", current_func.name, "R", "",
                                          stmt.line)))

RECURSIVE analyze_stmt(_, _, _, _, _, _, _)
RECURSIVE analyze_stmts(_, _, _, _, _, _, _)

\* the loop of the Seq case: the state and the warning set are threaded forward
analyze_stmts(stmts, prog, effects, escapes, current_func, state, warnings) ==
    IF stmts = <<>> THEN Outcome(state, warnings)
    ELSE LET o == analyze_stmt(Head(stmts), prog, effects, escapes, current_func, state,
                               warnings)
         IN  analyze_stmts(Tail(stmts), prog, effects, escapes, current_func, o.state,
                           o.warnings)

analyze_If(stmt, prog, effects, escapes, current_func, state, warnings) ==
    LET ws == warnings \cup check_reads(state, vars_in_expr(stmt.cond), stmt.line,
                                        Ctx("R(if-cond) at line", current_func.name, "R",
                                            "", stmt.line))
        o_then == analyze_stmt(stmt.then_s, prog, effects, escapes, current_func,
                               copy(state), ws)
        o_else == analyze_stmt(stmt.else_s, prog, effects, escapes, current_func,
                               copy(state), o_then.warnings)
    IN  Outcome(join_states(o_then.state, o_else.state), o_else.warnings)

analyze_While(stmt, prog, effects, escapes, current_func, state, warnings) ==
    LET ws == warnings \cup check_reads(state, vars_in_expr(stmt.cond), stmt.line,
                                        Ctx("R(while-cond) at line", current_func.name,
                                            "R", "", stmt.line))
        o_body == analyze_stmt(stmt.body, prog, effects, escapes, current_func,
                               copy(state), ws)
    IN  Outcome(join_states(state, o_body.state), o_body.warnings)

analyze_stmt(stmt, prog, effects, escapes, current_func, state, warnings) ==
    CASE stmt.k = "Assign" -> analyze_Assign(stmt, current_func, state, warnings)
      [] stmt.k = "AssignCall" ->
           analyze_AssignCall(stmt, prog, effects, escapes, current_func, state, warnings)
      [] stmt.k = "CallStmt" ->
           analyze_CallStmt(stmt, prog, effects, escapes, current_func, state, warnings)
      [] stmt.k = "Spawn" -> analyze_Spawn(stmt, prog, effects, current_func, state, warnings)
      [] stmt.k = "Await" -> analyze_Await(stmt, state, warnings)
      [] stmt.k = "Return" -> analyze_Return(stmt, current_func, state, warnings)
      [] stmt.k = "Seq" ->
           analyze_stmts(stmt.stmts, prog, effects, escapes, current_func, state, warnings)
      [] stmt.k = "If" ->
           analyze_If(stmt, prog, effects, escapes, current_func, state, warnings)
      [] stmt.k = "While" ->
           analyze_While(stmt, prog, effects, escapes, current_func, state, warnings)

(***************************************************************************)
(* The walk on objects.  A ConcurState is an object the walk mutates in    *)
(* place and hands on by reference; the sets of handle_env are objects     *)
(* too.  A store is the sequence of the objects made so far and a          *)
(* reference is a position in it.  The ThreadInfo of `active` are values:  *)
(* none is changed after threadinfo_from_effect or join_states has built   *)
(* it.                                                                      *)
(***************************************************************************)
\* a ConcurState object: its dict active and its dict handle_env of references to sets
StateObject(active, handle_env) ==
    [kind |-> "ConcurState", active |-> active, handle_env |-> handle_env, elems |-> {}]

\* a set object of thread ids
SetObject(elems) ==
    [kind |-> "set", active |-> EmptyDict, handle_env |-> EmptyDict, elems |-> elems]

\* what a walker that holds the reference s reads through it
state_of(heap, s) ==
    [active |-> heap[s].active,
     handle_env |-> [h \in DOMAIN heap[s].handle_env |-> heap[heap[s].handle_env[h]].elems]]

\* a reference with the store it points into
Ref(heap, ref) == [heap |-> heap, ref |-> ref]

RECURSIVE new_sets(_, _, _, _)
\* {k: set(v) for k, v in d.items()}: one new set object for every key of d
new_sets(heap, d, keys, refs) ==
    IF keys = {} THEN [heap |-> heap, refs |-> refs]
    ELSE LET k == CHOOSE x \in keys : TRUE
         IN  new_sets(Append(heap, SetObject(d[k])), d, keys \ {k},
                      [x \in DOMAIN refs \cup {k} |-> IF x = k THEN Len(heap) + 1 ELSE refs[x]])

\* ConcurState(active=dict(...), handle_env={k: set(v) ...}) for the value st
new_state(heap, st) ==
    LET r == new_sets(heap, st.handle_env, DOMAIN st.handle_env, EmptyDict)
    IN  Ref(Append(r.heap, StateObject(st.active, r.refs)), Len(r.heap) + 1)

\* copy returning self
copy_returns_self(heap, s) == Ref(heap, s)

\* ConcurState.copy: a new object with a new dict active and new sets
object_copy(heap, s) == new_state(heap, state_of(heap, s))

\* join_states: out = ConcurState() filled with new dicts and new sets
object_join_states(heap, a, b) ==
    new_state(heap, join_states(state_of(heap, a), state_of(heap, b)))

\* if target in state.handle_env: state.handle_env[target] = set()
object_reset_handle(heap, s, target) ==
    IF target \in DOMAIN heap[s].handle_env
    THEN [Append(heap, SetObject({})) EXCEPT ![s].handle_env[target] = Len(heap) + 1]
    ELSE heap

\* state.active[tid] = ... for the escaped threads of the callee
object_install_escaped(heap, s, stmt, prog, escapes) ==
    [heap EXCEPT ![s].active =
        install_escaped(escapes_get(escapes, stmt.func), stmt, FuncDef(prog, stmt.func),
                        state_of(heap, s)).active]

\* state.handle_env.setdefault(key, set()).add(tid): the set object is changed in place
object_bind(heap, s, key, tid) ==
    IF key \in DOMAIN heap[s].handle_env
    THEN [heap EXCEPT ![heap[s].handle_env[key]].elems = @ \cup {tid}]
    ELSE [Append(heap, SetObject({tid})) EXCEPT
             ![s].handle_env = [h \in DOMAIN @ \cup {key} |->
                                   IF h = key THEN Len(heap) + 1 ELSE @[h]]]

\* the Spawn case on the object s
object_Spawn(heap, s, stmt, prog, effects, current_func) ==
    LET h1 == IF stmt.handle # NoHandle THEN object_reset_handle(heap, s, stmt.handle)
              ELSE heap
        newt == spawned_thread(stmt, prog, effects, current_func)
        tid == newt.thread_id
        h2 == [h1 EXCEPT ![s].active =
                  [x \in DOMAIN @ \cup {tid} |-> IF x = tid THEN newt ELSE @[x]]]
    IN  IF stmt.handle # NoHandle THEN object_bind(h2, s, stmt.handle, tid)
        ELSE IF stmt.target.k = "SpawnCall" THEN object_bind(h2, s, stmt.target.func, tid)
        ELSE h2

\* the Await case on the object s
object_Await(heap, s, stmt) ==
    LET tids == get(state_of(heap, s).handle_env, stmt.handle)
    IN  [Append(heap, SetObject({})) EXCEPT
            ![s].active = [t \in DOMAIN @ \ tids |-> @[t]],
            ![s].handle_env = [h \in DOMAIN @ \cup {stmt.handle} |->
                                  IF h = stmt.handle THEN Len(heap) + 1 ELSE @[h]]]

\* what a call of analyze_stmt leaves: the store, the reference it returns, the warning set
Walked(heap, ref, ws) == [heap |-> heap, ref |-> ref, warnings |-> ws]

RECURSIVE object_analyze_stmt(_, _, _, _, _, _, _, _)
RECURSIVE object_analyze_stmts(_, _, _, _, _, _, _, _)

\* the loop of the Seq case: state = analyze_stmt(s, ..., state, warnings)
object_analyze_stmts(stmts, prog, effects, escapes, current_func, heap, s, warnings) ==
    IF stmts = <<>> THEN Walked(heap, s, warnings)
    ELSE LET w == object_analyze_stmt(Head(stmts), prog, effects, escapes, current_func,
                                      heap, s, warnings)
         IN  object_analyze_stmts(Tail(stmts), prog, effects, escapes, current_func,
                                  w.heap, w.ref, w.warnings)

(* analyze_stmt on the object s.  The checks read the object and add to    *)
(* the warning set what analyze_stmt adds for the state read through s.    *)
object_analyze_stmt(stmt, prog, effects, escapes, current_func, heap, s, warnings) ==
    LET st == state_of(heap, s)
    IN  CASE stmt.k = "Assign" ->
               Walked(object_reset_handle(heap, s, stmt.target), s,
                      analyze_Assign(stmt, current_func, st, warnings).warnings)
          [] stmt.k = "AssignCall" ->
               Walked(object_install_escaped(object_reset_handle(heap, s, stmt.target), s,
                                             stmt, prog, escapes), s,
                      analyze_AssignCall(stmt, prog, effects, escapes, current_func, st,
                                         warnings).warnings)
          [] stmt.k = "CallStmt" ->
               Walked(object_install_escaped(heap, s, stmt, prog, escapes), s,
                      analyze_CallStmt(stmt, prog, effects, escapes, current_func, st,
                                       warnings).warnings)
          [] stmt.k = "Spawn" ->
               Walked(object_Spawn(heap, s, stmt, prog, effects, current_func), s,
                      analyze_Spawn(stmt, prog, effects, current_func, st, warnings).warnings)
          [] stmt.k = "Await" -> Walked(object_Await(heap, s, stmt), s, warnings)
          [] stmt.k = "Return" ->
               Walked(heap, s, analyze_Return(stmt, current_func, st, warnings).warnings)
          [] stmt.k = "Seq" ->
               object_analyze_stmts(stmt.stmts, prog, effects, escapes, current_func, heap,
                                    s, warnings)
          [] stmt.k = "If" ->
               LET ws == warnings
                             \cup check_reads(st, vars_in_expr(stmt.cond), stmt.line,
                                              Ctx("R(if-cond) at line", current_func.name,
                                                  "R", "", stmt.line))
                   c_then == object_copy(heap, s)
                   w_then == object_analyze_stmt(stmt.then_s, prog, effects, escapes,
                                                 current_func, c_then.heap, c_then.ref, ws)
                   c_else == object_copy(w_then.heap, s)
                   w_else == object_analyze_stmt(stmt.else_s, prog, effects, escapes,
                                                 current_func, c_else.heap, c_else.ref,
                                                 w_then.warnings)
                   j == object_join_states(w_else.heap, w_then.ref, w_else.ref)
               IN  Walked(j.heap, j.ref, w_else.warnings)
          [] stmt.k = "While" ->
               LET ws == warnings
                             \cup check_reads(st, vars_in_expr(stmt.cond), stmt.line,
                                              Ctx("R(while-cond) at line",
                                                  current_func.name, "R", "", stmt.line))
                   c_body == object_copy(heap, s)
                   w_body == object_analyze_stmt(stmt.body, prog, effects, escapes,
                                                 current_func, c_body.heap, c_body.ref, ws)
                   j == object_join_states(w_body.heap, s, w_body.ref)
               IN  Walked(j.heap, j.ref, w_body.warnings)

(* sorted(warnings, key=lambda w: (w.line_a, w.var, w.kind)).  Python       *)
(* compares the strings of the key by code point: StrOrder lists, in that   *)
(* order, the identifiers of the programs below and the four kinds.         *)
StrOrder ==
    <<"R vs T", "RW vs T", "T vs T", "W vs T",
      "a", "b", "c", "h", "k", "x", "y", "z">>

str_rank(s) == CHOOSE i \in 1..Len(StrOrder) : StrOrder[i] = s

\* (a.line_a, a.var, a.kind) <= (b.line_a, b.var, b.kind)
key_le(a, b) ==
    \/ a.line_a < b.line_a
    \/ /\ a.line_a = b.line_a
       /\ \/ str_rank(a.var) < str_rank(b.var)
          \/ /\ a.var = b.var
             /\ str_rank(a.kind) <= str_rank(b.kind)

RECURSIVE listed_warnings(_)
\* list(warnings): the set in its iteration order, without the sort
listed_warnings(ws) ==
    IF ws = {} THEN {<<>>}
    ELSE UNION {{<<w>> \o rest : rest \in listed_warnings(ws \ {w})} : w \in ws}

RECURSIVE sorted_warnings(_)
(* The lists sorted() can return for the warning set.  The sort is stable   *)
(* and reads the set in its iteration order, which follows the hashes of    *)
(* the warnings' strings and differs from one interpreter run to the next:  *)
(* warnings with equal keys come out in any order.                          *)
sorted_warnings(ws) ==
    IF ws = {} THEN {<<>>}
    ELSE UNION {{<<w>> \o rest : rest \in sorted_warnings(ws \ {w})} :
                   w \in {m \in ws : \A o \in ws : key_le(m, o)}}

(***************************************************************************)
(* The programs analysed.  Every function other than main is written on   *)
(* one source line; the k-th statement of main is on line k + 1, with its  *)
(* branches on the same line.                                              *)
(***************************************************************************)
\* the longest body of main drawn from the statement pool
MaxLen == 3

\* the number of functions of the call chain c1 -> c2 -> ... (callers first)
ChainLen == 51

\* function f() { y = 1; }
DefF == FunctionDef("f", <<>>, Seq_(10, <<Assign(10, "y", Num(1))>>), 10)

\* function g() { z = y; }
DefG == FunctionDef("g", <<>>, Seq_(11, <<Assign(11, "z", Var("y"))>>), 11)

\* function start() { h = spawn f(); }
DefStart ==
    FunctionDef("start", <<>>, Seq_(12, <<Spawn(12, "h", SpawnCall("f", <<>>))>>), 12)

\* function launch() { spawn f(); }
DefLaunch ==
    FunctionDef("launch", <<>>, Seq_(13, <<Spawn(13, NoHandle, SpawnCall("f", <<>>))>>), 13)

\* function p(a) { a = 1; }
DefP == FunctionDef("p", <<"a">>, Seq_(14, <<Assign(14, "a", Num(1))>>), 14)

\* function r() { return y; }
DefR == FunctionDef("r", <<>>, Seq_(15, <<Return(15, Var("y"))>>), 15)

\* function rec(a, b) { rec(b, a); x = a; }
DefRec ==
    FunctionDef("rec", <<"a", "b">>,
                Seq_(16, <<CallStmt(16, "rec", <<Var("b"), Var("a")>>),
                           Assign(16, "x", Var("a"))>>), 16)

\* function even(a) { odd(a); z = a; }   function odd(b) { even(b); y = b; }
DefEven ==
    FunctionDef("even", <<"a">>,
                Seq_(17, <<CallStmt(17, "odd", <<Var("a")>>), Assign(17, "z", Var("a"))>>), 17)

DefOdd ==
    FunctionDef("odd", <<"b">>,
                Seq_(18, <<CallStmt(18, "even", <<Var("b")>>), Assign(18, "y", Var("b"))>>), 18)

\* function q(a, a, b) { a = b; }
DefQ ==
    FunctionDef("q", <<"a", "a", "b">>, Seq_(19, <<Assign(19, "a", Var("b"))>>), 19)

\* function sp(a) { h = spawn p(a); }
DefSp ==
    FunctionDef("sp", <<"a">>, Seq_(20, <<Spawn(20, "h", SpawnCall("p", <<Var("a")>>))>>), 20)

\* function outer() { start(); }
DefOuter == FunctionDef("outer", <<>>, Seq_(21, <<CallStmt(21, "start", <<>>)>>), 21)

\* function both() { h = spawn f(); y = 2; }
DefBoth ==
    FunctionDef("both", <<>>,
                Seq_(22, <<Spawn(22, "h", SpawnCall("f", <<>>)), Assign(23, "y", Num(2))>>),
                22)

\* the statements main is built from, written on line ln
PoolStmt(i, ln) ==
    CASE i = 1 -> Spawn(ln, "h", SpawnCall("f", <<>>))
      [] i = 2 -> Spawn(ln, "k", SpawnCall("g", <<>>))
      [] i = 3 -> Spawn(ln, NoHandle, SpawnCall("f", <<>>))
      [] i = 4 -> Await(ln, "h")
      [] i = 5 -> Await(ln, "f")
      [] i = 6 -> Assign(ln, "x", Var("y"))
      [] i = 7 -> Assign(ln, "h", Num(0))
      [] i = 8 -> CallStmt(ln, "start", <<>>)
      [] i = 9 -> If(ln, Var("c"), Assign(ln, "h", Num(0)), Assign(ln, "x", Var("y")))
      [] i = 10 -> While(ln, RelOp("<", Var("y"), Num(3)), CallStmt(ln, "start", <<>>))

\* the functions a pool statement calls, directly or not
PoolNeeds(i) ==
    CASE i \in {1, 3} -> {"f"}
      [] i = 2 -> {"g"}
      [] i \in {8, 10} -> {"start", "f"}
      [] OTHER -> {}

Main(stmts) == FunctionDef("main", <<>>, Seq_(1, stmts), 1)

\* main with the pool statements idx, followed by the functions it needs
PoolProgram(idx) ==
    LET needs == UNION {PoolNeeds(idx[j]) : j \in 1..Len(idx)}
        Needed(d) == d.name \in needs
    IN  <<Main([j \in 1..Len(idx) |-> PoolStmt(idx[j], j + 1)])>>
            \o SelectSeq(<<DefF, DefG, DefStart>>, Needed)

\* c1() { c2(); } ... c<n-1>() { c<n>(); }  c<n>() { x = 1; }, callers first
ChainProgram(n) ==
    [i \in 1..n |->
        FunctionDef("c" \o ToString(i), <<>>,
                    Seq_(i, <<IF i < n
                              THEN CallStmt(i, "c" \o ToString(i + 1), <<>>)
                              ELSE Assign(i, "x", Num(1))>>), i)]

\* main() { k = spawn c<n>(); c1(); }  c1() { h = spawn c2(); }  then the chain c2 ... c<n>
SpawnChainProgram(n) ==
    <<Main(<<Spawn(61, "k", SpawnCall("c" \o ToString(n), <<>>)),
             CallStmt(62, "c1", <<>>)>>)>>
        \o [i \in 1..n |->
               IF i = 1
               THEN FunctionDef("c1", <<>>,
                                Seq_(1, <<Spawn(1, "h", SpawnCall("c2", <<>>))>>), 1)
               ELSE ChainProgram(n)[i]]

\* scenario 3 of the specification: h = spawn f(); await h; x = y;
AwaitClearsProgram == PoolProgram(<<1, 4, 6>>)

ExtraPrograms ==
    << \* h = spawn f(); y = 2; await h;
       <<Main(<<Spawn(2, "h", SpawnCall("f", <<>>)), Assign(3, "y", Num(2)),
                Await(4, "h")>>), DefF>>,
       \* h = spawn f(); k = spawn g(); y = y + 1; return y;
       <<Main(<<Spawn(2, "h", SpawnCall("f", <<>>)), Spawn(3, "k", SpawnCall("g", <<>>)),
                Assign(4, "y", BinOp("+", Var("y"), Num(1))), Return(5, Var("y"))>>),
         DefF, DefG>>,
       \* h = spawn r(); k = spawn r(); x = spawn g();
       <<Main(<<Spawn(2, "h", SpawnCall("r", <<>>)), Spawn(3, "k", SpawnCall("r", <<>>)),
                Spawn(4, "x", SpawnCall("g", <<>>))>>), DefR, DefG>>,
       \* launch(); x = y;
       <<Main(<<CallStmt(2, "launch", <<>>), Assign(3, "x", Var("y"))>>),
         DefLaunch, DefF>>,
       \* h = launch(); await h; return y;
       <<Main(<<AssignCall(2, "h", "launch", <<>>), Await(3, "h"), Return(4, Var("y"))>>),
         DefLaunch, DefF>>,
       \* x = start(); if (c) x = y; else while (y < 3) z = y;
       <<Main(<<AssignCall(2, "x", "start", <<>>),
                If(3, Var("c"), Assign(3, "x", Var("y")),
                   While(3, RelOp("<", Var("y"), Num(3)), Assign(3, "z", Var("y"))))>>),
         DefStart, DefF>>,
       \* h = spawn { y = x; }; x = 1; await h; spawn { z = 1; };
       <<Main(<<Spawn(2, "h", SpawnBlock(Seq_(2, <<Assign(2, "y", Var("x"))>>))),
                Assign(3, "x", Num(1)), Await(4, "h"),
                Spawn(5, NoHandle, SpawnBlock(Seq_(5, <<Assign(5, "z", Num(1))>>)))>>)>>,
       \* { h = spawn f(); await h; } x = y;
       <<Main(<<Seq_(2, <<Spawn(2, "h", SpawnCall("f", <<>>)), Await(3, "h")>>),
                Assign(4, "x", Var("y"))>>), DefF>>,
       \* h = spawn p(y); p(x); x = p(y + z); k = spawn p(3);
       <<Main(<<Spawn(2, "h", SpawnCall("p", <<Var("y")>>)),
                CallStmt(3, "p", <<Var("x")>>),
                AssignCall(4, "x", "p", <<BinOp("+", Var("y"), Var("z"))>>),
                Spawn(5, "k", SpawnCall("p", <<Num(3)>>))>>), DefP>>,
       \* h = spawn rec(y, z); even(k);
       <<Main(<<Spawn(2, "h", SpawnCall("rec", <<Var("y"), Var("z")>>)),
                CallStmt(3, "even", <<Var("k")>>)>>), DefRec, DefEven, DefOdd>>,
       \* if (c) spawn f(); else return 0;          (scenario 6)
       <<Main(<<If(2, Var("c"), Spawn(2, NoHandle, SpawnCall("f", <<>>)),
                   Return(2, Num(0)))>>), DefF>>,
       \* h = spawn f(); while (c) { if (c) { x = 1; } else { await h; } }
       <<Main(<<Spawn(2, "h", SpawnCall("f", <<>>)),
                While(3, Var("c"),
                      Seq_(3, <<If(4, Var("c"), Seq_(4, <<Assign(4, "x", Num(1))>>),
                                   Seq_(5, <<Await(5, "h")>>))>>))>>), DefF>>,
       \* spawn { if (c) spawn f(); else x = 1; }; x = 2;
       <<Main(<<Spawn(2, NoHandle,
                      SpawnBlock(Seq_(2, <<If(2, Var("c"),
                                              Spawn(2, NoHandle, SpawnCall("f", <<>>)),
                                              Assign(2, "x", Num(1)))>>))),
                Assign(3, "x", Num(2))>>), DefF>>,
       \* x = 1; nope();                              (nope is not defined)
       <<Main(<<Assign(2, "x", Num(1)), CallStmt(3, "nope", <<>>)>>)>>,
       \* h = spawn f(); h = spawn f();            (one line)
       \* await h; x = y;
       <<Main(<<Spawn(2, "h", SpawnCall("f", <<>>)), Spawn(2, "h", SpawnCall("f", <<>>)),
                Await(3, "h"), Assign(4, "x", Var("y"))>>), DefF>>,
       \* spawn f(); spawn g();                     (one line)
       \* spawn g(); await f; await g;
       <<Main(<<Spawn(2, NoHandle, SpawnCall("f", <<>>)),
                Spawn(2, NoHandle, SpawnCall("g", <<>>)),
                Spawn(3, NoHandle, SpawnCall("g", <<>>)),
                Await(4, "f"), Await(5, "g")>>), DefF, DefG>>,
       \* h = spawn f(); while (c) h = 0; await h; x = y;
       <<Main(<<Spawn(2, "h", SpawnCall("f", <<>>)),
                While(3, Var("c"), Assign(3, "h", Num(0))),
                Await(4, "h"), Assign(5, "x", Var("y"))>>), DefF>>,
       \* h = spawn f(); h = start(); await h; x = y;
       <<Main(<<Spawn(2, "h", SpawnCall("f", <<>>)), AssignCall(3, "h", "start", <<>>),
                Await(4, "h"), Assign(5, "x", Var("y"))>>), DefStart, DefF>>,
       \* h = spawn f(); h = spawn g(); await h; x = y;
       <<Main(<<Spawn(2, "h", SpawnCall("f", <<>>)), Spawn(3, "h", SpawnCall("g", <<>>)),
                Await(4, "h"), Assign(5, "x", Var("y"))>>), DefF, DefG>>,
       \* h = spawn f(); if (c) start(); else h = 0; await h; x = y;
       <<Main(<<Spawn(2, "h", SpawnCall("f", <<>>)),
                If(3, Var("c"), CallStmt(3, "start", <<>>), Assign(3, "h", Num(0))),
                Await(4, "h"), Assign(5, "x", Var("y"))>>), DefStart, DefF>>,
       \* q(x, y); h = spawn q(1, k, z + c);
       <<Main(<<CallStmt(2, "q", <<Var("x"), Var("y")>>),
                Spawn(3, "h", SpawnCall("q", <<Num(1), Var("k"),
                                                BinOp("+", Var("z"), Var("c"))>>))>>),
         DefQ>>,
       \* k = spawn g(); if (c) sp(x); else sp(y); x = 1;
       <<Main(<<Spawn(2, "k", SpawnCall("g", <<>>)),
                If(3, Var("c"), CallStmt(3, "sp", <<Var("x")>>),
                   CallStmt(3, "sp", <<Var("y")>>)),
                Assign(4, "x", Num(1))>>), DefG, DefSp, DefP>>,
       \* h = spawn f(); if (c) h = 0; else h = 1; await h; x = y;
       <<Main(<<Spawn(2, "h", SpawnCall("f", <<>>)),
                If(3, Var("c"), Assign(3, "h", Num(0)), Assign(3, "h", Num(1))),
                Await(4, "h"), Assign(5, "x", Var("y"))>>), DefF>>,
       \* h = spawn f(); y = spawn p(y);
       <<Main(<<Spawn(2, "h", SpawnCall("f", <<>>)),
                Spawn(3, "y", SpawnCall("p", <<Var("y")>>))>>), DefF, DefP>>,
       \* h = spawn f(); h = spawn g();            (one line)
       \* x = y;
       <<Main(<<Spawn(2, "h", SpawnCall("f", <<>>)), Spawn(2, "h", SpawnCall("g", <<>>)),
                Assign(3, "x", Var("y"))>>), DefF, DefG>>,
       \* h = spawn f(); { x = 1; await h; } x = y;
       <<Main(<<Spawn(2, "h", SpawnCall("f", <<>>)),
                Seq_(3, <<Assign(3, "x", Num(1)), Await(4, "h")>>),
                Assign(5, "x", Var("y"))>>), DefF>>,
       \* h = start(); await h; x = y;
       <<Main(<<AssignCall(2, "h", "start", <<>>), Await(3, "h"),
                Assign(4, "x", Var("y"))>>), DefStart, DefF>>,
       \* sp(x); sp(y);                            (one line)
       \* x = 2;
       <<Main(<<CallStmt(2, "sp", <<Var("x")>>), CallStmt(2, "sp", <<Var("y")>>),
                Assign(3, "x", Num(2))>>), DefSp, DefP>>,
       \* outer(); x = y;
       <<Main(<<CallStmt(2, "outer", <<>>), Assign(3, "x", Var("y"))>>),
         DefOuter, DefStart, DefF>>,
       \* h = spawn f();
       \* k = spawn { y = 2; await h; a = spawn g(); if (c) await h; else x = 1; };
       \* x = y;
       <<Main(<<Spawn(2, "h", SpawnCall("f", <<>>)),
                Spawn(3, "k",
                      SpawnBlock(Seq_(3, <<Assign(4, "y", Num(2)), Await(5, "h"),
                                           Spawn(6, "a", SpawnCall("g", <<>>)),
                                           If(7, Var("c"), Await(7, "h"),
                                              Assign(7, "x", Num(1)))>>))),
                Assign(8, "x", Var("y"))>>), DefF, DefG>>,
       \* k = spawn g(); y = 3; both();
       <<Main(<<Spawn(2, "k", SpawnCall("g", <<>>)), Assign(3, "y", Num(3)),
                CallStmt(4, "both", <<>>)>>), DefBoth, DefF, DefG>>,
       ChainProgram(ChainLen),
       SpawnChainProgram(ChainLen),
       SpawnChainProgram(ChainLen - 1),
       ChainProgram(ChainLen - 1),
       ChainProgram(3) >>

(***************************************************************************)
(* State of one run of analyze_program.                                    *)
(***************************************************************************)
VARIABLES
    prog,      \* the Program analysed
    pc,        \* where the run stands
    error,     \* the line named by the ValueError of the constraint check, or 0
    effs,      \* effs of compute_function_effects, then effects of analyze_program
    iter,      \* the passes of the fixed-point loop made so far
    changed,   \* the flag `changed` of the last pass
    escapes,   \* compute_escaping_threads's result
    fi,        \* the position in prog of the function being walked
    si,        \* the position in its body of the next statement
    state,     \* the ConcurState of the walk
    warnings,  \* the warning set shared by the walks
    joined,    \* history: the ThreadInfo taken out of active by an Await of this walk
    result,    \* the list analyze_program returns
    exit       \* main of the driver: whether it has returned, its code, what it printed

vars == <<prog, pc, error, effs, iter, changed, escapes, fi, si, state, warnings, joined,
          result, exit>>

\* the bound of `for _ in range(50)`
MaxIter == 50

PoolIndexes == UNION {[1..n -> 1..10] : n \in 0..MaxLen}

\* main has not returned
Running == [returned |-> FALSE, code |-> 0, stdout |-> <<>>, stderr |-> FALSE]

(* The source either lexes and parses into one of the programs, or lex()   *)
(* or parse_program() raises and no Program is built.                      *)
Init ==
    /\ \/ /\ \/ \E idx \in PoolIndexes : prog = PoolProgram(idx)
             \/ \E i \in 1..Len(ExtraPrograms) : prog = ExtraPrograms[i]
          /\ pc = "validate"
       \/ /\ prog = <<>>
          /\ pc \in {"LexerError", "ParserError"}
    /\ error = 0
    /\ effs = EmptyDict
    /\ iter = 0
    /\ changed = FALSE
    /\ escapes = EmptyDict
    /\ fi = 0
    /\ si = 1
    /\ state = ConcurState
    /\ warnings = {}
    /\ joined = {}
    /\ result = <<>>
    /\ exit = Running

RECURSIVE enforce_all(_)
\* for f in prog.functions.values(): enforce_no_spawn_await_in_if_while(f.body, False)
enforce_all(fdefs) ==
    IF fdefs = <<>> THEN <<>>
    ELSE enforce_no_spawn_await_in_if_while(Head(fdefs).body, FALSE)
             \o enforce_all(Tail(fdefs))

(* analyze_program, the constraint check: the ValueError of the first       *)
(* offending statement ends the run, before any effect is computed.         *)
Validate ==
    /\ pc = "validate"
    /\ IF enforce_all(prog) # <<>>
       THEN /\ pc' = "error"
            /\ error' = Head(enforce_all(prog))
            /\ effs' = effs
       ELSE /\ pc' = "effects"
            /\ error' = error
            /\ effs' = [name \in FuncNames(prog) |-> Effect]
    /\ UNCHANGED <<prog, iter, changed, escapes, fi, si, state, warnings, joined, result, exit>>

RECURSIVE callees(_)
RECURSIVE callees_of(_)

callees_of(stmts) ==
    IF stmts = <<>> THEN {} ELSE callees(Head(stmts)) \cup callees_of(Tail(stmts))

\* the names stmt.func / stmt.target.func that compute_effect_stmt looks up in prog.functions
callees(stmt) ==
    CASE stmt.k \in {"AssignCall", "CallStmt"} -> {stmt.func}
      [] stmt.k = "Spawn" ->
           IF stmt.target.k = "SpawnCall" THEN {stmt.target.func}
           ELSE callees(stmt.target.body)
      [] stmt.k = "Seq" -> callees_of(stmt.stmts)
      [] stmt.k = "If" -> callees(stmt.then_s) \cup callees(stmt.else_s)
      [] stmt.k = "While" -> callees(stmt.body)
      [] OTHER -> {}

\* the lookups prog.functions[name] of a pass that raise KeyError
undefined_callees(p) ==
    UNION {callees(p[i].body) : i \in 1..Len(p)} \ FuncNames(p)

\* if not new_eff.equals(effs[fname]): effs[fname] = effs[fname].union(new_eff)
update_summary(old, new_eff) ==
    IF ~equals(new_eff, old) THEN union(old, new_eff) ELSE old

RECURSIVE effects_pass(_, _, _, _)
(* One pass of the fixed-point loop over the functions fdefs, in order:    *)
(* each summary is updated in place and read by the functions after it.    *)
effects_pass(fdefs, p, es, ch) ==
    IF fdefs = <<>> THEN [effs |-> es, changed |-> ch]
    ELSE LET fdef == Head(fdefs)
             new_eff == compute_effect_seq(fdef.body, p, es)
         IN  effects_pass(Tail(fdefs), p,
                          [es EXCEPT ![fdef.name] = update_summary(@, new_eff)],
                          ch \/ ~equals(new_eff, es[fdef.name]))

(* compute_function_effects, one pass of `for _ in range(50)`; the loop    *)
(* ends when a pass changes nothing or when the 50 passes are made.        *)
EffectsPass ==
    /\ pc = "effects"
    /\ iter < MaxIter
    /\ undefined_callees(prog) = {}
    /\ LET r == effects_pass(prog, prog, effs, FALSE)
       IN  /\ effs' = r.effs
           /\ changed' = r.changed
           /\ iter' = iter + 1
           /\ pc' = IF ~r.changed \/ iter + 1 = MaxIter THEN "escapes" ELSE "effects"
    /\ UNCHANGED <<prog, error, escapes, fi, si, state, warnings, joined, result, exit>>

(* compute_function_effects on a program that calls or spawns a function   *)
(* it does not define: prog.functions[name] raises KeyError in the first   *)
(* pass, and nothing catches it.                                           *)
EffectsKeyError ==
    /\ pc = "effects"
    /\ undefined_callees(prog) # {}
    /\ pc' = "crash"
    /\ UNCHANGED <<prog, error, effs, iter, changed, escapes, fi, si, state, warnings,
                   joined, result, exit>>

\* escapes = compute_escaping_threads(prog, effects); warnings = set()
Escapes ==
    /\ pc = "escapes"
    /\ escapes' = compute_escaping_threads(prog, effs)
    /\ pc' = "walk"
    /\ UNCHANGED <<prog, error, effs, iter, changed, fi, si, state, warnings, joined,
                   result, exit>>

\* the function being walked and the statement of its body the walk stands at
CurFunc == prog[fi]

CurStmt == CurFunc.body.stmts[si]

Walking(kind) ==
    /\ pc = "walk"
    /\ fi \in 1..Len(prog)
    /\ si <= Len(CurFunc.body.stmts)
    /\ CurStmt.k = kind

\* state = analyze_stmt(s, ...) in the loop over the statements of the body
WalkStep(o) ==
    /\ state' = o.state
    /\ warnings' = o.warnings
    /\ si' = si + 1
    /\ UNCHANGED <<prog, pc, error, effs, iter, changed, escapes, fi, result, exit>>

\* the loop over the functions with the state of the last walk passed to the next one
WalkBegin_keeps_state ==
    /\ pc = "walk"
    /\ fi < Len(prog)
    /\ IF fi = 0 THEN TRUE ELSE si > Len(CurFunc.body.stmts)
    /\ fi' = fi + 1
    /\ si' = 1
    /\ state' = state
    /\ joined' = {}
    /\ UNCHANGED <<prog, pc, error, effs, iter, changed, escapes, warnings, result, exit>>

(* analyze_stmt(f.body, ..., f, ConcurState(), warnings) for the next       *)
(* function of prog.functions.values(): its walk starts from an empty      *)
(* state.                                                                   *)
WalkBegin ==
    /\ pc = "walk"
    /\ fi < Len(prog)
    /\ IF fi = 0 THEN TRUE ELSE si > Len(CurFunc.body.stmts)
    /\ fi' = fi + 1
    /\ si' = 1
    /\ state' = ConcurState
    /\ joined' = {}
    /\ UNCHANGED <<prog, pc, error, effs, iter, changed, escapes, warnings, result, exit>>

WalkAssign ==
    /\ Walking("Assign")
    /\ WalkStep(analyze_Assign(CurStmt, CurFunc, state, warnings))
    /\ UNCHANGED joined

WalkAssignCall ==
    /\ Walking("AssignCall")
    /\ WalkStep(analyze_AssignCall(CurStmt, prog, effs, escapes, CurFunc, state, warnings))
    /\ UNCHANGED joined

WalkCall ==
    /\ Walking("CallStmt")
    /\ WalkStep(analyze_CallStmt(CurStmt, prog, effs, escapes, CurFunc, state, warnings))
    /\ UNCHANGED joined

\* the threads of js except those whose id the Spawn stmt gives to its new thread
unjoin(js, stmt, current_func) ==
    {t \in js : t.thread_id # ThreadId(current_func.name, tid_base(stmt), stmt.line)}

\* js with the threads an Await stmt takes out of state.active
join(js, stmt, st) ==
    js \cup {st.active[t] : t \in get(st.handle_env, stmt.handle) \cap DOMAIN st.active}

WalkSpawn ==
    /\ Walking("Spawn")
    /\ WalkStep(analyze_Spawn(CurStmt, prog, effs, CurFunc, state, warnings))
    /\ joined' = unjoin(joined, CurStmt, CurFunc)

WalkAwait ==
    /\ Walking("Await")
    /\ WalkStep(analyze_Await(CurStmt, state, warnings))
    /\ joined' = join(joined, CurStmt, state)

WalkReturn ==
    /\ Walking("Return")
    /\ WalkStep(analyze_Return(CurStmt, CurFunc, state, warnings))
    /\ UNCHANGED joined

RECURSIVE joined_after(_, _, _, _, _, _, _)
\* the history of the awaits and spawns of a block { ... } walked from st
joined_after(stmts, p, effects, escs, current_func, st, js) ==
    IF stmts = <<>> THEN js
    ELSE LET s == Head(stmts)
             o == analyze_stmt(s, p, effects, escs, current_func, st, {})
             js1 == CASE s.k = "Await" -> join(js, s, st)
                      [] s.k = "Spawn" -> unjoin(js, s, current_func)
                      [] s.k = "Seq" ->
                           joined_after(s.stmts, p, effects, escs, current_func, st, js)
                      [] OTHER -> js
         IN  joined_after(Tail(stmts), p, effects, escs, current_func, o.state, js1)

\* a block { ... } among the statements of the body
WalkSeq ==
    /\ Walking("Seq")
    /\ WalkStep(analyze_stmts(CurStmt.stmts, prog, effs, escapes, CurFunc, state, warnings))
    /\ joined' = joined_after(CurStmt.stmts, prog, effs, escapes, CurFunc, state, joined)

WalkIf ==
    /\ Walking("If")
    /\ WalkStep(analyze_If(CurStmt, prog, effs, escapes, CurFunc, state, warnings))
    /\ UNCHANGED joined

WalkWhile ==
    /\ Walking("While")
    /\ WalkStep(analyze_While(CurStmt, prog, effs, escapes, CurFunc, state, warnings))
    /\ UNCHANGED joined

\* return sorted(warnings, key=...), once every function is walked
Finish ==
    /\ pc = "walk"
    /\ fi = Len(prog)
    /\ IF fi = 0 THEN TRUE ELSE si > Len(CurFunc.body.stmts)
    /\ result' \in sorted_warnings(warnings)
    /\ pc' = "done"
    /\ UNCHANGED <<prog, error, effs, iter, changed, escapes, fi, si, state, warnings,
                   joined, exit>>

\* main returning len(warnings)
main_returns_count(ws) == Len(ws)

\* the code main returns after printing the warnings
main_returns(ws) == IF Len(ws) = 0 THEN 0 ELSE 2

(* main, after analyze_source has returned: the warnings are printed on    *)
(* stdout, and the code is 0 without warnings and 2 with some.             *)
MainReturns ==
    /\ pc = "done"
    /\ ~exit.returned
    /\ exit' = [returned |-> TRUE, code |-> main_returns(result), stdout |-> result,
                stderr |-> FALSE]
    /\ UNCHANGED <<prog, pc, error, effs, iter, changed, escapes, fi, si, state, warnings,
                   joined, result>>

(* main, the except clause: a LexerError, a ParserError or the ValueError  *)
(* of the constraint check is printed on stderr and the code is 1.         *)
MainError ==
    /\ pc \in {"error", "LexerError", "ParserError"}
    /\ ~exit.returned
    /\ exit' = [returned |-> TRUE, code |-> 1, stdout |-> <<>>, stderr |-> TRUE]
    /\ UNCHANGED <<prog, pc, error, effs, iter, changed, escapes, fi, si, state, warnings,
                   joined, result>>

Next ==
    \/ Validate
    \/ EffectsPass
    \/ EffectsKeyError
    \/ Escapes
    \/ WalkBegin
    \/ WalkAssign
    \/ WalkAssignCall
    \/ WalkCall
    \/ WalkSpawn
    \/ WalkAwait
    \/ WalkReturn
    \/ WalkSeq
    \/ WalkIf
    \/ WalkWhile
    \/ Finish
    \/ MainReturns
    \/ MainError

Spec == Init /\ [][Next]_vars

(***************************************************************************)
(* Properties                                                              *)
(***************************************************************************)
Range(seq) == {seq[i] : i \in 1..Len(seq)}

\* the walk stands at a statement of one of the kinds
AtStmt(kinds) ==
    /\ pc = "walk"
    /\ fi \in 1..Len(prog)
    /\ si <= Len(CurFunc.body.stmts)
    /\ CurStmt.k \in kinds

\* the statement the walk has just passed is of one of the kinds
PastStmt(kinds) ==
    /\ pc = "walk"
    /\ fi \in 1..Len(prog)
    /\ si > 1
    /\ si - 1 <= Len(CurFunc.body.stmts)
    /\ CurFunc.body.stmts[si - 1].k \in kinds

RECURSIVE Accesses(_)
RECURSIVE AccessesOf(_)

AccessesOf(stmts) ==
    IF stmts = <<>> THEN {} ELSE Accesses(Head(stmts)) \cup AccessesOf(Tail(stmts))

(* The accesses made by an Assign, a Return, or an If / While with the     *)
(* statements of its branches: the line, the variables read and written.   *)
Accesses(stmt) ==
    CASE stmt.k = "Assign" ->
           {[line |-> stmt.line, reads |-> vars_in_expr(stmt.expr), writes |-> {stmt.target}]}
      [] stmt.k = "Return" ->
           {[line |-> stmt.line, reads |-> vars_in_expr(stmt.expr), writes |-> {}]}
      [] stmt.k = "If" ->
           {[line |-> stmt.line, reads |-> vars_in_expr(stmt.cond), writes |-> {}]}
               \cup Accesses(stmt.then_s) \cup Accesses(stmt.else_s)
      [] stmt.k = "While" ->
           {[line |-> stmt.line, reads |-> vars_in_expr(stmt.cond), writes |-> {}]}
               \cup Accesses(stmt.body)
      [] stmt.k = "Seq" -> AccessesOf(stmt.stmts)
      [] OTHER -> {}

AccessKind(v, a) ==
    IF v \in a.reads /\ v \in a.writes THEN "RW vs T"
    ELSE IF v \in a.reads THEN "R vs T"
    ELSE "W vs T"

(* C1: when an Assign, a Return or an If / While (its condition and the    *)
(* statements of its branches) accesses v while a thread that writes v is *)
(* in active, the step leaves a warning on v, at the line of the access,   *)
(* of kind R / W / RW vs T according to the access, naming that thread.    *)
C1_AccessVsThread ==
    [][AtStmt({"Assign", "Return", "If", "While"}) =>
          \A a \in Accesses(CurStmt) : \A v \in a.reads \cup a.writes :
             \A tid \in DOMAIN state.active :
                v \in state.active[tid].writes =>
                   \E w \in warnings' :
                      /\ w.var = v
                      /\ w.line_a = a.line
                      /\ w.kind = AccessKind(v, a)
                      /\ w.ctx_b = <<ThreadCtx(state.active[tid])>>]_vars

(* Scenario 1: h = spawn f(); x = y; await h; is analysed, and the list    *)
(* holds the "R vs T" warning on y at line 3 against the spawned f.        *)
C1_Witness ==
    /\ prog = PoolProgram(<<1, 6, 4>>)
    /\ pc = "done"
    /\ \E w \in Range(result) :
          /\ w.var = "y" /\ w.line_a = 3 /\ w.kind = "R vs T"
          /\ w.ctx_b = <<[desc |-> Desc("spawn", "f", "main"), spawn |-> 2]>>

(* C2: once an Await has taken a thread out of active, no later statement  *)
(* of the walk adds a warning that names that thread; and the program      *)
(* h = spawn f(); await h; x = y; ends with an empty list.                 *)
C2_AwaitEndsRaces ==
    [][/\ (pc = "walk" /\ ~AtStmt({"Seq"})) =>
             \A w \in warnings' \ warnings : \A t \in joined' :
                ThreadCtx(t) \notin Range(w.ctx_b)
       /\ (pc' = "done" /\ prog' = AwaitClearsProgram) => result' = <<>>]_vars

\* an assignment or a return has been walked after the await of a thread that writes
\* a variable it accesses
C2_Witness ==
    /\ PastStmt({"Assign", "Return"})
    /\ \E t \in joined : \E a \in Accesses(CurFunc.body.stmts[si - 1]) :
          (a.reads \cup a.writes) \cap t.writes # {}

(* C3: an Await of h takes out of active exactly the threads of            *)
(* handle_env[h], leaves every other thread as it was, sets handle_env[h]  *)
(* to the empty set and leaves every other binding unchanged.              *)
C3_AwaitFrame ==
    [][AtStmt({"Await"}) =>
          LET h == CurStmt.handle
              tids == IF h \in DOMAIN state.handle_env THEN state.handle_env[h] ELSE {}
          IN  /\ DOMAIN state'.active = DOMAIN state.active \ tids
              /\ \A t \in DOMAIN state'.active : state'.active[t] = state.active[t]
              /\ DOMAIN state'.handle_env = DOMAIN state.handle_env \cup {h}
              /\ state'.handle_env[h] = {}
              /\ \A g \in DOMAIN state.handle_env \ {h} :
                    state'.handle_env[g] = state.handle_env[g]]_vars

\* an await has joined a thread and left another one, bound to another handle, active
C3_Witness ==
    /\ PastStmt({"Await"})
    /\ joined # {}
    /\ \E g \in DOMAIN state.handle_env :
          state.handle_env[g] \cap DOMAIN state.active # {}

(* C4: when a Spawn is walked while a thread old is active, for every      *)
(* variable both footprints hold there is a "T vs T" warning at the line   *)
(* of the Spawn naming old and the new thread if one of them writes it,    *)
(* and none if both only read it.                                          *)
C4_ThreadVsThread ==
    [][AtStmt({"Spawn"}) =>
          LET newt == state'.active[ThreadId(CurFunc.name, tid_base(CurStmt), CurStmt.line)]
          IN  \A o \in DOMAIN state.active :
                 LET old == state.active[o]
                     Flagged(v) == \E w \in warnings' :
                                      /\ w.kind = "T vs T"
                                      /\ w.var = v
                                      /\ w.line_a = CurStmt.line
                                      /\ w.ctx_b = <<ThreadCtx(old), ThreadCtx(newt)>>
                 IN  \A v \in (newt.reads \cup newt.writes) \cap (old.reads \cup old.writes) :
                        Flagged(v) <=> (v \in newt.writes \cup old.writes)]_vars

\* a spawn has been walked whose thread reads a variable that an older active thread
\* writes, and the warning set holds the "T vs T" warning of the pair
C4_Witness ==
    /\ PastStmt({"Spawn"})
    /\ \E n \in DOMAIN state.active, o \in DOMAIN state.active :
          /\ state.active[n].spawn_line = CurFunc.body.stmts[si - 1].line
          /\ state.active[o].spawn_line < state.active[n].spawn_line
          /\ state.active[n].reads \cap state.active[o].writes # {}
          /\ \E w \in warnings :
                /\ w.kind = "T vs T"
                /\ w.line_a = state.active[n].spawn_line
                /\ w.ctx_b = <<ThreadCtx(state.active[o]), ThreadCtx(state.active[n])>>

\* the spawn s of fdef is not awaited in fdef: no await names its handle, or the
\* callee name a spawn without a handle is bound under
Unawaited(s, fdef) ==
    IF s.handle # NoHandle THEN s.handle \notin awaited_handles(fdef)
    ELSE IF s.target.k = "SpawnCall" THEN s.target.func \notin awaited_handles(fdef)
    ELSE TRUE

\* the variables the thread of the spawn s of fdef writes, formals of fdef apart
EscapedWrites(s, fdef) ==
    spawned_thread(s, prog, effs, fdef).writes \ Range(fdef.params)

(* C5: when a function is called whose spawn, with or without a handle, is *)
(* not awaited in it, every later access of the caller to a variable the   *)
(* spawned thread writes has a warning in the list, as long as the caller  *)
(* has no await between the call and the access.                           *)
C5_EscapeSoundness ==
    pc = "done" =>
       \A c \in 1..Len(prog) :
          LET body == prog[c].body.stmts
          IN  \A i \in 1..Len(body), j \in 1..Len(body) :
                 (/\ i < j
                  /\ body[i].k \in {"CallStmt", "AssignCall"}
                  /\ body[i].func \in FuncNames(prog)
                  /\ \A m \in (i + 1)..(j - 1) : body[m].k # "Await") =>
                    LET fdef == FuncDef(prog, body[i].func)
                        spawns == list_spawns(fdef.body)
                    IN  \A n \in 1..Len(spawns) :
                           Unawaited(spawns[n], fdef) =>
                              \A a \in Accesses(body[j]) :
                                 \A v \in (a.reads \cup a.writes)
                                             \cap EscapedWrites(spawns[n], fdef) :
                                    \E w \in Range(result) :
                                       w.var = v /\ w.line_a = a.line

RECURSIVE InControl(_, _)
RECURSIVE InControlOf(_, _)

InControlOf(stmts, inside) ==
    IF stmts = <<>> THEN FALSE
    ELSE InControl(Head(stmts), inside) \/ InControlOf(Tail(stmts), inside)

(* A Spawn or an Await stands inside an If or a While, at any depth,       *)
(* through sequences, nested If / While and the bodies of spawn blocks.    *)
InControl(stmt, inside) ==
    CASE stmt.k = "Await" -> inside
      [] stmt.k = "Spawn" ->
           inside \/ (stmt.target.k = "SpawnBlock" /\ InControl(stmt.target.body, inside))
      [] stmt.k = "Seq" -> InControlOf(stmt.stmts, inside)
      [] stmt.k = "If" -> InControl(stmt.then_s, TRUE) \/ InControl(stmt.else_s, TRUE)
      [] stmt.k = "While" -> InControl(stmt.body, TRUE)
      [] OTHER -> FALSE

(* C6: a program with a Spawn or an Await inside an If or a While, at any  *)
(* depth, is rejected with a semantic error: its analysis never goes past  *)
(* the validation, so no effect is computed and no warning is returned.    *)
C6_RejectedBeforeEffects ==
    (\E i \in 1..Len(prog) : InControl(prog[i].body, FALSE)) =>
        pc \in {"validate", "error"}

(* C7: two runs on the same program return the same list: every list the   *)
(* final sort can return for the warning set, whatever the order in which  *)
(* the set is iterated, is the list this run returned.                     *)
C7_SameListEveryRun ==
    pc = "done" => \A r \in sorted_warnings(warnings) : r = result

\* every set and every site map of a is contained in that of b
EffectLeq(a, b) ==
    /\ a.reads \subseteq b.reads
    /\ a.writes \subseteq b.writes
    /\ \A v \in DOMAIN a.read_sites :
          v \in DOMAIN b.read_sites /\ a.read_sites[v] \subseteq b.read_sites[v]
    /\ \A v \in DOMAIN a.write_sites :
          v \in DOMAIN b.write_sites /\ a.write_sites[v] \subseteq b.write_sites[v]

(* C8: the summaries only grow: after every step each function's summary   *)
(* contains the reads, the writes and the sites it held before the step.   *)
C8_SummariesGrow ==
    [][\A f \in DOMAIN effs : f \in DOMAIN effs' /\ EffectLeq(effs[f], effs'[f])]_vars

\* a second or later pass has changed a summary that was not empty before it
C8_Witness ==
    /\ iter >= 2
    /\ changed
    /\ \E f \in DOMAIN effs : \E g \in callees(FuncDef(prog, f).body) \cap DOMAIN effs :
          /\ effs[g].writes # {}
          /\ effs[g].writes \subseteq effs[f].writes

\* every summary is what its function body evaluates to under the summaries
IsFixedPoint ==
    \A i \in 1..Len(prog) :
       equals(compute_effect_seq(prog[i].body, prog, effs), effs[prog[i].name])

(* C9: the summaries compute_function_effects returns are a fixed point,   *)
(* and the loop is left by the pass that changes nothing, never by the     *)
(* bound on the number of passes.                                          *)
C9_ReturnsFixedPoint ==
    pc \in {"escapes", "walk", "done"} => (~changed /\ IsFixedPoint)

(* C10: compute_function_effects ends on every program after a bounded     *)
(* number of passes, and it ends by returning: no program makes it fail.   *)
C10_EndsWithoutFailure ==
    /\ iter <= MaxIter
    /\ pc # "crash"

RECURSIVE Shadows(_, _)
RECURSIVE ShadowsOf(_, _)

ShadowsOf(stmts, h) ==
    IF stmts = <<>> THEN FALSE ELSE Shadows(Head(stmts), h) \/ ShadowsOf(Tail(stmts), h)

\* stmt assigns h by an Assign or an AssignCall, itself or in a branch, a body or a block
Shadows(stmt, h) ==
    CASE stmt.k \in {"Assign", "AssignCall"} -> stmt.target = h
      [] stmt.k = "If" -> Shadows(stmt.then_s, h) \/ Shadows(stmt.else_s, h)
      [] stmt.k = "While" -> Shadows(stmt.body, h)
      [] stmt.k = "Seq" -> ShadowsOf(stmt.stmts, h)
      [] OTHER -> FALSE

RECURSIVE Binds(_, _)
RECURSIVE BindsOf(_, _)

BindsOf(stmts, h) ==
    IF stmts = <<>> THEN FALSE ELSE Binds(Head(stmts), h) \/ BindsOf(Tail(stmts), h)

\* stmt is, or its block holds, a Spawn that binds its thread under the name h
Binds(stmt, h) ==
    CASE stmt.k = "Spawn" ->
           IF stmt.handle # NoHandle THEN stmt.handle = h
           ELSE stmt.target.k = "SpawnCall" /\ stmt.target.func = h
      [] stmt.k = "Seq" -> BindsOf(stmt.stmts, h)
      [] OTHER -> FALSE

\* a statement before position n of the body assigns h, and no Spawn binds h after it
ShadowedAt(body, n, h) ==
    \E m \in 1..(n - 1) :
       /\ Shadows(body[m], h)
       /\ \A j \in m..(n - 1) : ~Binds(body[j], h)

(* C11: when a statement before an `await h` assigns h by an Assign or an  *)
(* AssignCall, at the top of the body or inside an If branch or a While    *)
(* body, and no Spawn binds h again before the await, the await takes no   *)
(* thread out of active.                                                   *)
C11_ShadowedAwaitJoinsNothing ==
    [][AtStmt({"Await"}) =>
          (ShadowedAt(CurFunc.body.stmts, si, CurStmt.handle) =>
              DOMAIN state'.active = DOMAIN state.active)]_vars

\* the same, for an assignment that is itself a statement of the body
C11_StraightLine ==
    [][AtStmt({"Await"}) =>
          ((\E m \in 1..(si - 1) :
               /\ CurFunc.body.stmts[m].k \in {"Assign", "AssignCall"}
               /\ CurFunc.body.stmts[m].target = CurStmt.handle
               /\ \A j \in m..(si - 1) : ~Binds(CurFunc.body.stmts[j], CurStmt.handle)) =>
              DOMAIN state'.active = DOMAIN state.active)]_vars

\* the thread t conflicts with an access of the kind to v
ConflictsWith(t, v, kind) ==
    IF kind = "R vs T" THEN v \in t.writes ELSE v \in t.reads \cup t.writes

\* the lines and the context a warning on v carries for the thread t
OtherSide(t, v) ==
    <<sorted_lines((IF v \in t.reads /\ v \in DOMAIN t.read_sites THEN t.read_sites[v] ELSE {})
                       \cup (IF v \in t.writes /\ v \in DOMAIN t.write_sites
                             THEN t.write_sites[v] ELSE {})),
      <<ThreadCtx(t)>>>>

(* C12: on an Assign or a Return, the warnings added for an accessed       *)
(* variable v are those of the active threads in conflict with the access, *)
(* one for each and none for any other thread: an R access conflicts with  *)
(* the threads that write v, a W or RW access with those that read or      *)
(* write v; each carries the kind of the access.                           *)
C12_ConflictSymmetry ==
    [][AtStmt({"Assign", "Return"}) =>
          \A a \in Accesses(CurStmt) :
             /\ \A w \in warnings' \ warnings : w.var \in a.reads \cup a.writes
             /\ \A v \in a.reads \cup a.writes :
                   LET added == {w \in warnings' \ warnings : w.var = v}
                       against == {t \in {state.active[tid] : tid \in DOMAIN state.active} :
                                      ConflictsWith(t, v, AccessKind(v, a))}
                   IN  /\ \A w \in added : w.kind = AccessKind(v, a) /\ w.line_a = a.line
                       /\ {<<w.lines_b, w.ctx_b>> : w \in added}
                              = {OtherSide(t, v) : t \in against}]_vars

\* an assignment has been walked that writes a variable an active thread only reads,
\* and the warning set holds its warning against that thread
C12_Witness ==
    /\ PastStmt({"Assign"})
    /\ \E t \in DOMAIN state.active :
          LET v == CurFunc.body.stmts[si - 1].target
          IN  /\ v \in state.active[t].reads \ state.active[t].writes
              /\ \E w \in warnings :
                    /\ w.var = v
                    /\ w.line_a = CurFunc.body.stmts[si - 1].line
                    /\ w.kind \in {"W vs T", "RW vs T"}
                    /\ w.ctx_b = <<ThreadCtx(state.active[t])>>

\* the threads the checks of a step can name: active before or after it, or joined by it
ThreadsSeen ==
    {state.active[t] : t \in DOMAIN state.active}
        \cup {state'.active[t] : t \in DOMAIN state'.active}
        \cup joined'

\* one of the two accesses the warning w pairs is a write of its variable
InvolvesWrite(w, threads) ==
    CASE w.kind \in {"W vs T", "RW vs T"} -> TRUE
      [] w.kind = "R vs T" ->
           \E t \in threads : <<ThreadCtx(t)>> = w.ctx_b /\ w.var \in t.writes
      [] w.kind = "T vs T" ->
           \E t \in threads, u \in threads :
              /\ <<ThreadCtx(t), ThreadCtx(u)>> = w.ctx_b
              /\ w.var \in t.writes \cup u.writes
      [] OTHER -> FALSE

(* C13: every warning involves a write of its variable: when it is added   *)
(* its kind is W vs T or RW vs T, or it is R vs T and the thread it names  *)
(* writes the variable, or it is T vs T and one of the two threads it      *)
(* names writes it; and the returned list holds only warnings so added.    *)
C13_AtLeastOneWrite ==
    [][/\ \A w \in warnings' \ warnings : InvolvesWrite(w, ThreadsSeen)
       /\ Range(result') \subseteq warnings']_vars

\* two active threads share a variable both only read and one that one of them writes:
\* the warning set holds a T vs T warning naming them for the second and none for the first
C13_Witness ==
    /\ pc = "walk"
    /\ \E t \in DOMAIN state.active, u \in DOMAIN state.active :
          LET a == state.active[t]
              b == state.active[u]
              Named(v) == \E w \in warnings :
                             /\ w.kind = "T vs T"
                             /\ w.var = v
                             /\ w.ctx_b = <<ThreadCtx(a), ThreadCtx(b)>>
          IN  /\ t # u
              /\ \E v \in (a.reads \cap b.reads) \ (a.writes \cup b.writes) : ~Named(v)
              /\ \E v \in a.writes \cap b.writes : Named(v)

\* (line_a, var, kind) of a is not after that of b: lines as numbers, strings by code point
NotAfter(a, b) ==
    IF a.line_a # b.line_a THEN a.line_a < b.line_a
    ELSE IF a.var # b.var THEN str_rank(a.var) < str_rank(b.var)
    ELSE str_rank(a.kind) <= str_rank(b.kind)

(* C14: the returned list holds no warning twice and is in non-decreasing  *)
(* order of (line_a, variable name, kind).                                 *)
C14_SortedNoDuplicates ==
    pc = "done" =>
       \A i \in 1..Len(result), j \in 1..Len(result) :
          i < j => result[i] # result[j] /\ NotAfter(result[i], result[j])

\* a list of three warnings or more is returned, two of them on the same line for
\* different variables and two on different lines
C14_Witness ==
    /\ pc = "done"
    /\ Len(result) >= 3
    /\ \E i \in 1..Len(result), j \in 1..Len(result) :
          result[i].line_a = result[j].line_a /\ result[i].var # result[j].var
    /\ \E i \in 1..Len(result), j \in 1..Len(result) :
          result[i].line_a # result[j].line_a

\* stmt is `spawn f(...)` without a handle
HandleLess(stmt, f) ==
    /\ stmt.k = "Spawn"
    /\ stmt.handle = NoHandle
    /\ stmt.target.k = "SpawnCall"
    /\ stmt.target.func = f

\* stmt is a Spawn whose handle is h
SpawnsInto(stmt, h) == stmt.k = "Spawn" /\ stmt.handle = h

(* C15: a `spawn f(...)` without a handle adds the id of its thread to     *)
(* handle_env[f], next to the ids already bound there; and an `await f`    *)
(* leaves in active none of the threads of the earlier handle-less spawns  *)
(* of f in the body, as long as nothing assigned f or spawned into f in    *)
(* between.                                                                *)
C15_HandleLessSugar ==
    [][/\ (AtStmt({"Spawn"}) /\ CurStmt.handle = NoHandle
              /\ CurStmt.target.k = "SpawnCall") =>
             LET f == CurStmt.target.func
                 tid == ThreadId(CurFunc.name, f, CurStmt.line)
                 before == IF f \in DOMAIN state.handle_env THEN state.handle_env[f] ELSE {}
             IN  /\ f \in DOMAIN state'.handle_env
                 /\ state'.handle_env[f] = before \cup {tid}
                 /\ tid \in DOMAIN state'.active
       /\ AtStmt({"Await"}) =>
             LET f == CurStmt.handle
                 body == CurFunc.body.stmts
             IN  \A m \in 1..(si - 1) :
                    (/\ HandleLess(body[m], f)
                     /\ \A j \in (m + 1)..(si - 1) :
                           ~Shadows(body[j], f) /\ ~SpawnsInto(body[j], f)) =>
                        ThreadId(CurFunc.name, f, body[m].line) \notin DOMAIN state'.active]_vars

\* the first await of the body has been walked, and it has joined the threads of two
\* handle-less spawns of the callee it names
C15_Witness ==
    /\ PastStmt({"Await"})
    /\ \A m \in 1..(si - 2) : CurFunc.body.stmts[m].k # "Await"
    /\ \E m \in 1..(si - 2), n \in 1..(si - 2) :
          LET body == CurFunc.body.stmts
              f == body[si - 1].handle
          IN  /\ m < n
              /\ HandleLess(body[m], f)
              /\ HandleLess(body[n], f)
              /\ \E t \in joined, u \in joined :
                    /\ t.thread_id = ThreadId(CurFunc.name, f, body[m].line)
                    /\ u.thread_id = ThreadId(CurFunc.name, f, body[n].line)
                    /\ t.thread_id # u.thread_id

\* stmt, a statement of the body, overwrites the handle h
Overwrites(stmt, h) ==
    \/ stmt.k \in {"Assign", "AssignCall"} /\ stmt.target = h
    \/ SpawnsInto(stmt, h)

\* the Spawn at position m of the body binds a handle that a statement before position
\* n overwrites, with no await and no block between the two
OverwrittenBefore(body, m, n) ==
    /\ body[m].k = "Spawn"
    /\ body[m].handle # NoHandle
    /\ \E j \in (m + 1)..(n - 1) :
          /\ Overwrites(body[j], body[m].handle)
          /\ \A i \in (m + 1)..(j - 1) : body[i].k \notin {"Await", "Seq"}

(* C16: a thread whose handle has been overwritten by a later Assign,      *)
(* AssignCall or Spawn of the body is in active at every later point of    *)
(* the walk: no Await takes it out.                                        *)
C16_OverwrittenStaysActive ==
    (pc = "walk" /\ fi \in 1..Len(prog)) =>
        \A m \in 1..Len(CurFunc.body.stmts) :
           (m < si /\ OverwrittenBefore(CurFunc.body.stmts, m, si)) =>
              ThreadId(CurFunc.name, CurFunc.body.stmts[m].handle,
                       CurFunc.body.stmts[m].line) \in DOMAIN state.active

\* the same, when the statement that overwrites the handle is on another line
C16_OtherLine ==
    (pc = "walk" /\ fi \in 1..Len(prog)) =>
        \A m \in 1..Len(CurFunc.body.stmts) :
           (/\ m < si
            /\ OverwrittenBefore(CurFunc.body.stmts, m, si)
            /\ \A j \in (m + 1)..(si - 1) :
                  CurFunc.body.stmts[j].line # CurFunc.body.stmts[m].line) =>
              ThreadId(CurFunc.name, CurFunc.body.stmts[m].handle,
                       CurFunc.body.stmts[m].line) \in DOMAIN state.active

(* C17: when main returns, its code is 0 exactly when the analysis has    *)
(* completed with an empty list, 2 exactly when it has completed with a    *)
(* list of one warning or more, and 1 when the lexer, the parser or the    *)
(* constraint check has raised; with the code 1 no warning is printed.     *)
C17_ExitCodes ==
    [][(~exit.returned /\ exit'.returned) =>
          /\ exit'.code = 0 <=> (pc = "done" /\ Len(result) = 0)
          /\ exit'.code = 2 <=> (pc = "done" /\ Len(result) >= 1)
          /\ pc \in {"LexerError", "ParserError", "error"} => exit'.code = 1
          /\ exit'.code = 1 => exit'.stdout = <<>>
          /\ pc = "done" => exit'.stdout = result]_vars

\* main has returned 2 after printing the warnings of a completed analysis
C17_Witness ==
    /\ exit.returned
    /\ exit.code = 2
    /\ pc = "done"
    /\ Len(exit.stdout) >= 1

(* The states the walk goes through inside the statement it stands at: at *)
(* the end of each branch of an If, of the body of a While, and after each *)
(* statement of a block.                                                   *)
StatesWithin ==
    IF AtStmt({"If"})
    THEN {analyze_stmt(b, prog, effs, escapes, CurFunc, copy(state), {}).state :
             b \in {CurStmt.then_s, CurStmt.else_s}}
    ELSE IF AtStmt({"While"})
    THEN {analyze_stmt(CurStmt.body, prog, effs, escapes, CurFunc, copy(state), {}).state}
    ELSE IF AtStmt({"Seq"})
    THEN {analyze_stmts(SubSeq(CurStmt.stmts, 1, n), prog, effs, escapes, CurFunc, state,
                        {}).state : n \in 0..Len(CurStmt.stmts)}
    ELSE {}

(* C18: at every point of a walk, every thread id held in a binding of     *)
(* handle_env is a key of active: no binding refers to a joined thread.    *)
C18_BindingsAreActive ==
    \A st \in {state} \cup StatesWithin :
       \A h \in DOMAIN st.handle_env : st.handle_env[h] \subseteq DOMAIN st.active

\* an await has joined a thread, and a binding made before or after it still holds the
\* id of an active thread
C18_Witness ==
    /\ pc = "walk"
    /\ joined # {}
    /\ \E h \in DOMAIN state.handle_env : state.handle_env[h] # {}
    /\ \E h \in DOMAIN state.handle_env :
          state.handle_env[h] = {} /\ \E t \in joined : t.thread_id.base = h

\* the names of the set are those with a line in the site map
SitesMatch(names, sites) ==
    /\ \A v \in names : v \in DOMAIN sites /\ sites[v] # {}
    /\ \A v \in DOMAIN sites : sites[v] # {} => v \in names

\* e is an Effect or a ThreadInfo whose reads and writes agree with its sites
SiteInvariant(e) ==
    /\ SitesMatch(e.reads, e.read_sites)
    /\ SitesMatch(e.writes, e.write_sites)

\* the effects compute_effect_stmt and compute_effect_seq give, under the summaries
\* of the moment, for every statement of every body and for every body
StatementEffects ==
    IF pc \in {"effects", "escapes", "walk", "done"} /\ undefined_callees(prog) = {}
    THEN UNION {{compute_effect_stmt(prog[i].body.stmts[j], prog, effs) :
                    j \in 1..Len(prog[i].body.stmts)}
                   \cup {compute_effect_seq(prog[i].body, prog, effs)} : i \in 1..Len(prog)}
    ELSE {}

\* the substituted effect of every call and of every spawned call among the statements
\* of the bodies
SubstitutedEffects ==
    IF pc \in {"effects", "escapes", "walk", "done"} /\ undefined_callees(prog) = {}
    THEN UNION {{substitute_effect(effs[s.func], FuncDef(prog, s.func), s.args) :
                    s \in {t \in Range(prog[i].body.stmts) :
                              t.k \in {"CallStmt", "AssignCall"}}}
                   \cup {substitute_effect(effs[s.target.func], FuncDef(prog, s.target.func),
                                           s.target.args) :
                            s \in {t \in Range(prog[i].body.stmts) :
                                      t.k = "Spawn" /\ t.target.k = "SpawnCall"}} :
                   i \in 1..Len(prog)}
    ELSE {}

(* C19: in every summary of every pass, in the effect of every statement  *)
(* and body, in every substituted effect, in every escaping thread and in  *)
(* every thread of active (merged by a join or not), a variable is in      *)
(* reads exactly when read_sites has a line for it, and in writes exactly  *)
(* when write_sites has one.                                               *)
C19_SiteInvariant ==
    /\ \A f \in DOMAIN effs : SiteInvariant(effs[f])
    /\ \A e \in StatementEffects \cup SubstitutedEffects : SiteInvariant(e)
    /\ \A f \in DOMAIN escapes : \A t \in Range(escapes[f]) : SiteInvariant(t)
    /\ \A st \in {state} \cup StatesWithin :
          \A t \in DOMAIN st.active : SiteInvariant(st.active[t])

\* a thread installed at a call, its effect substituted through the arguments, is active
\* after a join, and the summaries hold reads and writes
C19_Witness ==
    /\ PastStmt({"If", "While"})
    /\ \E t \in DOMAIN state.active :
          t.esc /\ state.active[t].writes # {}
    /\ \E f \in DOMAIN effs : effs[f].reads # {} /\ effs[f].writes # {}

(* C20: every Spawn of a walk gives its thread an id that no thread of      *)
(* active has: the step adds exactly one entry to active and leaves every  *)
(* entry that was there in place.                                          *)
C20_FreshThreadId ==
    [][AtStmt({"Spawn"}) =>
          /\ Cardinality(DOMAIN state'.active) = Cardinality(DOMAIN state.active) + 1
          /\ \A t \in DOMAIN state.active :
                t \in DOMAIN state'.active /\ state'.active[t] = state.active[t]]_vars

\* the incoming state object of the statement the walk stands at
Incoming == new_state(<<>>, state)

\* the copy the then-branch, or the While body, is walked from, and that walk
FirstCopy == object_copy(Incoming.heap, Incoming.ref)

FirstWalk ==
    object_analyze_stmt(IF CurStmt.k = "If" THEN CurStmt.then_s ELSE CurStmt.body,
                        prog, effs, escapes, CurFunc, FirstCopy.heap, FirstCopy.ref, warnings)

\* the copy the else-branch is walked from, and that walk
SecondCopy == object_copy(FirstWalk.heap, Incoming.ref)

SecondWalk ==
    object_analyze_stmt(CurStmt.else_s, prog, effs, escapes, CurFunc, SecondCopy.heap,
                        SecondCopy.ref, FirstWalk.warnings)

(* C21: walking the then-branch of an If leaves the incoming state object  *)
(* as it was, the else-branch starts from a state equal to the incoming    *)
(* one, and walking it changes neither the incoming object nor the state   *)
(* the then-branch returned; walking the body of a While leaves the        *)
(* incoming object, which is then joined with the body's, as it was.  The  *)
(* walk on objects therefore returns, for every statement, the state and   *)
(* the warnings of the walk on values.                                     *)
C21_BranchIsolation ==
    /\ AtStmt({"If"}) =>
          /\ state_of(FirstWalk.heap, Incoming.ref) = state
          /\ state_of(SecondCopy.heap, SecondCopy.ref) = state
          /\ state_of(SecondWalk.heap, Incoming.ref) = state
          /\ state_of(SecondWalk.heap, FirstWalk.ref)
                 = state_of(FirstWalk.heap, FirstWalk.ref)
    /\ AtStmt({"While"}) => state_of(FirstWalk.heap, Incoming.ref) = state
    /\ AtStmt({"Assign", "AssignCall", "CallStmt", "Spawn", "Await", "Return", "Seq", "If",
               "While"}) =>
          LET w == object_analyze_stmt(CurStmt, prog, effs, escapes, CurFunc, Incoming.heap,
                                       Incoming.ref, warnings)
              o == analyze_stmt(CurStmt, prog, effs, escapes, CurFunc, state, warnings)
          IN  state_of(w.heap, w.ref) = o.state /\ w.warnings = o.warnings

\* an If with a thread bound to a handle: the then-branch installs an escaped thread in
\* its copy and the else-branch empties the binding in its own
C21_Witness ==
    /\ AtStmt({"If"})
    /\ \E h \in DOMAIN state.handle_env : state.handle_env[h] # {}
    /\ DOMAIN state_of(FirstWalk.heap, FirstWalk.ref).active # DOMAIN state.active
    /\ state_of(SecondWalk.heap, SecondWalk.ref).handle_env # state.handle_env

\* a While whose body installs an escaped thread in its copy
C21_WitnessWhile ==
    /\ AtStmt({"While"})
    /\ state_of(FirstWalk.heap, FirstWalk.ref) # state

(* C22: walking a While leaves the thread ids of active as they were       *)
(* before it.                                                              *)
C22_LoopKeepsLiveSet ==
    [][AtStmt({"While"}) => DOMAIN state'.active = DOMAIN state.active]_vars

\* the While the walk stands at, walked once, and its body walked again from the result
OnePass == analyze_While(CurStmt, prog, effs, escapes, CurFunc, state, warnings)

SecondPass ==
    analyze_stmt(CurStmt.body, prog, effs, escapes, CurFunc, copy(OnePass.state),
                 OnePass.warnings)

(* C23: the body of a While, walked a second time from the state the walk  *)
(* returned for the While, adds no warning to those of the first pass, and *)
(* the join of the returned state with the state after that second pass is *)
(* the returned state.                                                     *)
C23_OnePassIsFixedPoint ==
    AtStmt({"While"}) =>
        /\ SecondPass.warnings = OnePass.warnings
        /\ join_states(OnePass.state, SecondPass.state) = OnePass.state

\* without a call in the body, the second pass adds nothing and the live set is kept
C23_NoCallInBody ==
    (AtStmt({"While"}) /\ callees(CurStmt.body) = {}) =>
        /\ SecondPass.warnings = OnePass.warnings
        /\ join_states(OnePass.state, SecondPass.state) = OnePass.state
        /\ DOMAIN OnePass.state.active = DOMAIN state.active

\* the walk of the body of the function at position fi has reached its end
AtEndOfBody ==
    /\ pc = "walk"
    /\ fi \in 1..Len(prog)
    /\ si > Len(CurFunc.body.stmts)

\* the spawn s of the function fdef is one of the threads escapes lists for fdef
InEscapes(s, fdef) ==
    /\ s.handle # NoHandle
    /\ \E t \in Range(escapes[fdef.name]) :
          t.thread_id = ThreadId(fdef.name, s.handle, s.line)

\* the thread the walk of fdef creates at the spawn s is in active
StillActive(s, fdef) == ThreadId(fdef.name, tid_base(s), s.line) \in DOMAIN state.active

(* C24: at the end of the walk of the body of a function, a spawn of the   *)
(* function is in the escapes of the function exactly when the thread it   *)
(* creates is in active.                                                   *)
C24_EscapesAgreeWithWalk ==
    AtEndOfBody =>
        \A s \in Range(list_spawns(CurFunc.body)) :
            InEscapes(s, CurFunc) <=> StillActive(s, CurFunc)

\* one half: the thread of a spawn listed in escapes is in active at the end of the body
C24_EscapesAreActive ==
    AtEndOfBody =>
        \A s \in Range(list_spawns(CurFunc.body)) :
            InEscapes(s, CurFunc) => StillActive(s, CurFunc)

RECURSIVE CallSites(_)
RECURSIVE CallSitesOf(_)

CallSitesOf(stmts) ==
    IF stmts = <<>> THEN {} ELSE CallSites(Head(stmts)) \cup CallSitesOf(Tail(stmts))

\* the calls and spawned calls of a statement, each with its callee and its actuals
CallSites(stmt) ==
    CASE stmt.k \in {"AssignCall", "CallStmt"} -> {[func |-> stmt.func, args |-> stmt.args]}
      [] stmt.k = "Spawn" ->
           IF stmt.target.k = "SpawnCall"
           THEN {[func |-> stmt.target.func, args |-> stmt.target.args]}
           ELSE CallSites(stmt.target.body)
      [] stmt.k = "Seq" -> CallSitesOf(stmt.stmts)
      [] stmt.k = "If" -> CallSites(stmt.then_s) \cup CallSites(stmt.else_s)
      [] stmt.k = "While" -> CallSites(stmt.body)
      [] OTHER -> {}

(* The substitutions of a run: every call site of the program with the     *)
(* summary of its callee at the moment, and with the footprint of every    *)
(* escaped thread of the callee.                                           *)
Substitutions ==
    IF pc \in {"effects", "escapes", "walk", "done"} /\ undefined_callees(prog) = {}
    THEN UNION {{[E |-> e, P |-> FuncDef(prog, c.func).params, A |-> c.args,
                  S |-> substitute_effect(e, FuncDef(prog, c.func), c.args)] :
                    e \in {effs[c.func]} \cup Range(escapes_get(escapes, c.func))} :
                   c \in UNION {CallSites(prog[i].body) : i \in 1..Len(prog)}}
    ELSE {}

\* the position i of the formals P holds v, and no later position does
LastFormal(P, i, v) == P[i] = v /\ \A j \in (i + 1)..Len(P) : P[j] # v

\* the callee variable v is mapped to w: v is no formal and w is v, or v is the formal of
\* a position (the last one holding v, when last) and w occurs in the actual there
MapsTo(v, w, P, A, last) ==
    \/ v \notin Range(P) /\ w = v
    \/ \E i \in 1..Len(P) :
          /\ P[i] = v
          /\ last => LastFormal(P, i, v)
          /\ i <= Len(A)
          /\ w \in vars_in_expr(A[i])

\* the variables of the actuals and the callee variables: where a target can come from
Targets(names, A) == names \cup vars_in_args(A)

\* names and sites of the result are those the callee's names and sites map to
SubstitutedAs(names, sites, out_names, out_sites, P, A, last) ==
    /\ out_names = {w \in Targets(names, A) : \E v \in names : MapsTo(v, w, P, A, last)}
    /\ DOMAIN out_sites = out_names
    /\ \A w \in out_names :
          out_sites[w] = UNION {get(sites, v) : v \in {u \in names : MapsTo(u, w, P, A, last)}}

\* the sets of lines a site map holds
Range_of(d) == {d[x] : x \in DOMAIN d}

\* every line of the result is a line of a site of the callee effect
NoNewLine(e, out) ==
    /\ UNION Range_of(out.read_sites) \subseteq UNION Range_of(e.read_sites)
    /\ UNION Range_of(out.write_sites) \subseteq UNION Range_of(e.write_sites)

(* C25: the substituted effect reads (writes) exactly the callee's         *)
(* non-formal reads (writes) and the variables of the actual at every      *)
(* position whose formal the callee reads (writes); each variable carries  *)
(* exactly the lines of the callee variables mapped to it, and no line is  *)
(* new.                                                                    *)
C25_Substitution ==
    \A c \in Substitutions :
       /\ SubstitutedAs(c.E.reads, c.E.read_sites, c.S.reads, c.S.read_sites, c.P, c.A, FALSE)
       /\ SubstitutedAs(c.E.writes, c.E.write_sites, c.S.writes, c.S.write_sites, c.P, c.A,
                        FALSE)
       /\ NoNewLine(c.E, c.S)

(* C25, amended: as C25, with a formal standing for the actual at the last *)
(* position that holds its name.                                           *)
C25_SubstitutionLastFormal ==
    \A c \in Substitutions :
       /\ SubstitutedAs(c.E.reads, c.E.read_sites, c.S.reads, c.S.read_sites, c.P, c.A, TRUE)
       /\ SubstitutedAs(c.E.writes, c.E.write_sites, c.S.writes, c.S.write_sites, c.P, c.A,
                        TRUE)
       /\ NoNewLine(c.E, c.S)

\* a walk with a thread whose footprint comes from a substitution that maps a written
\* formal to a variable of its actual and a read formal to the two variables of its own
C25_Witness ==
    /\ pc = "walk"
    /\ \E t \in DOMAIN state.active :
          /\ Cardinality(state.active[t].reads) = 2
          /\ state.active[t].writes # {}
    /\ \E c \in Substitutions :
          /\ c.E.writes # {} /\ c.S.writes # c.E.writes
          /\ \E i \in 1..Len(c.P) : i > Len(c.A) /\ c.P[i] \in c.E.reads
          /\ c.S.reads = {}

(* The pairs of states the run joins at the statement the walk stands at:  *)
(* the states after the two branches of an If, the incoming state and the  *)
(* state after the body of a While.                                        *)
JoinedPairs ==
    IF AtStmt({"If"})
    THEN {<<analyze_stmt(CurStmt.then_s, prog, effs, escapes, CurFunc, copy(state),
                         {}).state,
            analyze_stmt(CurStmt.else_s, prog, effs, escapes, CurFunc, copy(state),
                         {}).state>>}
    ELSE IF AtStmt({"While"})
    THEN {<<state,
            analyze_stmt(CurStmt.body, prog, effs, escapes, CurFunc, copy(state), {}).state>>}
    ELSE {}

\* the footprint and the sites of the thread t of j are the unions of those in a and in b
MergedThread(j, a, b, t) ==
    LET In(st, field) == IF t \in DOMAIN st.active THEN st.active[t][field] ELSE {}
        SitesIn(st, field, v) ==
            IF t \in DOMAIN st.active THEN get(st.active[t][field], v) ELSE {}
    IN  /\ j.active[t].reads = In(a, "reads") \cup In(b, "reads")
        /\ j.active[t].writes = In(a, "writes") \cup In(b, "writes")
        /\ \A field \in {"read_sites", "write_sites"} :
              \A v \in j.active[t].reads \cup j.active[t].writes
                         \cup DOMAIN j.active[t][field] :
                 get(j.active[t][field], v) = SitesIn(a, field, v) \cup SitesIn(b, field, v)

\* j is the join of a and b as the specification defines it
IsJoin(j, a, b) ==
    /\ DOMAIN j.active = DOMAIN a.active \cup DOMAIN b.active
    /\ \A t \in DOMAIN j.active : MergedThread(j, a, b, t)
    /\ DOMAIN j.handle_env = DOMAIN a.handle_env \cup DOMAIN b.handle_env
    /\ \A h \in DOMAIN j.handle_env :
          j.handle_env[h] = get(a.handle_env, h) \cup get(b.handle_env, h)

\* a state without the description and the spawn line of its threads
Footprints(st) ==
    [active |-> [t \in DOMAIN st.active |->
                    [reads |-> st.active[t].reads, writes |-> st.active[t].writes,
                     read_sites |-> st.active[t].read_sites,
                     write_sites |-> st.active[t].write_sites]],
     handle_env |-> st.handle_env]

(* C26: the join of two states has the thread ids of both, gives a thread  *)
(* of both the union of its two footprints and site maps, and binds every  *)
(* handle to the union of its two bindings; joining a state with itself    *)
(* gives that state, and the join of a with b has the thread ids,          *)
(* footprints, sites and bindings of the join of b with a.                 *)
C26_JoinIsUnion ==
    /\ pc = "walk" => join_states(state, state) = state
    /\ \A pr \in JoinedPairs :
          /\ IsJoin(join_states(pr[1], pr[2]), pr[1], pr[2])
          /\ join_states(pr[1], pr[1]) = pr[1]
          /\ join_states(pr[2], pr[2]) = pr[2]
          /\ Footprints(join_states(pr[1], pr[2])) = Footprints(join_states(pr[2], pr[1]))

\* the two branches of an If leave a thread under one id with two different footprints,
\* next to a thread both branches leave as it was
C26_Witness ==
    \E pr \in JoinedPairs :
       /\ \E t \in DOMAIN pr[1].active \cap DOMAIN pr[2].active :
             pr[1].active[t].writes # pr[2].active[t].writes
       /\ \E t \in DOMAIN pr[1].active \cap DOMAIN pr[2].active :
             pr[1].active[t] = pr[2].active[t]
       /\ \E h \in DOMAIN pr[1].handle_env : pr[1].handle_env[h] # {}

RECURSIVE Overwritten(_, _)
RECURSIVE OverwrittenIn(_, _)

OverwrittenIn(stmts, h) ==
    IF stmts = <<>> THEN FALSE
    ELSE Overwritten(Head(stmts), h) \/ OverwrittenIn(Tail(stmts), h)

\* every path through stmt assigns h by an Assign or an AssignCall
Overwritten(stmt, h) ==
    CASE stmt.k \in {"Assign", "AssignCall"} -> stmt.target = h
      [] stmt.k = "If" -> Overwritten(stmt.then_s, h) /\ Overwritten(stmt.else_s, h)
      [] stmt.k = "Seq" -> OverwrittenIn(stmt.stmts, h)
      [] OTHER -> FALSE

C27_WitnessBoth ==
    /\ AtStmt({"Await"})
    /\ PastStmt({"If"})
    /\ Overwritten(CurFunc.body.stmts[si - 1], CurStmt.handle)
    /\ get(state.handle_env, CurStmt.handle) = {}
    /\ state.active # EmptyDict

\* the warning w is one against the thread t, for the variable of w
Against(w, t) ==
    /\ w.ctx_b = <<ThreadCtx(t)>>
    /\ w.var \in t.reads \cup t.writes
    /\ w.lines_b = sorted_lines(collect_other_lines(t, w.var))

\* the ids under which the call the walk stands at installs the escaped threads of its callee
Injected ==
    {EscapedId(t.thread_id, CurStmt.line) : t \in Range(escapes_get(escapes, CurStmt.func))}

\* the accesses a call statement checks: the variable, the mode and the tag of the context
CallAccesses ==
    LET sub == substitute_effect(effs[CurStmt.func], FuncDef(prog, CurStmt.func),
                                 CurStmt.args)
    IN  {<<v, "R", "R(arg) at call site line">> : v \in vars_in_args(CurStmt.args)}
            \cup {<<v, mode_for(v, sub.reads, sub.writes), "during call from">> :
                     v \in sub.reads \cup sub.writes}
            \cup (IF CurStmt.k = "AssignCall"
                  THEN {<<CurStmt.target, "W", "W(ret) at line">>} ELSE {})

\* the smallest line at which the substituted effect of the callee reads or writes v
FirstSite(v) ==
    LET sub == substitute_effect(effs[CurStmt.func], FuncDef(prog, CurStmt.func),
                                 CurStmt.args)
        lines == get(sub.read_sites, v) \cup get(sub.write_sites, v)
    IN  CHOOSE x \in lines : \A y \in lines : x <= y

(* C28: at a CallStmt or an AssignCall, every access of the statement that *)
(* conflicts with a thread active before the statement gets its warning,   *)
(* every warning the statement adds is one against a thread active before  *)
(* it, and the escaped threads of the callee are active after it; a        *)
(* warning for the callee's effect is at the smallest site line of its     *)
(* variable in the substituted effect.                                     *)
C28_ChecksBeforeInjection ==
    [][AtStmt({"CallStmt", "AssignCall"}) =>
          /\ \A a \in CallAccesses : \A t \in DOMAIN state.active :
                conflicts(a[2], state.active[t], a[1]) =>
                    \E w \in warnings' :
                       /\ w.var = a[1] /\ w.kind = kind_of(a[2]) /\ w.ctx_a.tag = a[3]
                       /\ w.ctx_a.line = CurStmt.line
                       /\ Against(w, state.active[t])
          /\ \A w \in warnings' \ warnings :
                \E t \in DOMAIN state.active : Against(w, state.active[t])
          /\ Injected \subseteq DOMAIN state'.active
          /\ \A w \in warnings' \ warnings :
                w.ctx_a.tag = "during call from" => w.line_a = FirstSite(w.var)
      ]_vars

\* a call has just been walked: it got a warning for the effect of its callee against a
\* thread spawned before it, at a line of the callee, and the escaped thread it installed
\* is active
C28_Witness ==
    /\ PastStmt({"CallStmt", "AssignCall"})
    /\ \E w \in warnings : \E t \in DOMAIN state.active :
          /\ w.ctx_a.tag = "during call from"
          /\ w.ctx_a.line = CurFunc.body.stmts[si - 1].line
          /\ w.line_a # w.ctx_a.line
          /\ w.ctx_b[1].desc.tag = "spawn"
          /\ t.esc /\ t.call = w.ctx_a.line

\* the thread the Spawn the walk stands at creates
NewThread == spawned_thread(CurStmt, prog, effs, CurFunc)

\* the accesses of the spawner at a Spawn: the variable, the mode and the tag of the context
SpawnAccesses ==
    (IF CurStmt.handle # NoHandle
     THEN {<<CurStmt.handle, "W", "W(handle) at spawn line">>} ELSE {})
        \cup (IF CurStmt.target.k = "SpawnCall"
              THEN {<<v, "R", "R(arg) at spawn line">> :
                       v \in vars_in_args(CurStmt.target.args)}
              ELSE {})

\* the variables on which check_thread_thread finds the new thread and an old one in conflict
Overlap(newt, oldt) ==
    (newt.writes \cap (oldt.reads \cup oldt.writes)) \cup (newt.reads \cap oldt.writes)

(* C29: at a Spawn, the write of the handle and the reads of the arguments *)
(* get their warnings against the threads active before the statement, the *)
(* new thread gets a "T vs T" warning with each of those threads it        *)
(* overlaps, and every warning the statement adds is one of these: none    *)
(* pairs the new thread with the thread the statement installs.  After the *)
(* statement the new thread is active and the handle is bound to it alone. *)
C29_SpawnOrder ==
    [][AtStmt({"Spawn"}) =>
          /\ \A a \in SpawnAccesses : \A t \in DOMAIN state.active :
                conflicts(a[2], state.active[t], a[1]) =>
                    \E w \in warnings' :
                       /\ w.var = a[1] /\ w.kind = kind_of(a[2]) /\ w.ctx_a.tag = a[3]
                       /\ w.line_a = CurStmt.line
                       /\ Against(w, state.active[t])
          /\ \A t \in DOMAIN state.active : \A v \in Overlap(NewThread, state.active[t]) :
                \E w \in warnings' :
                   /\ w.var = v /\ w.kind = "T vs T" /\ w.line_a = CurStmt.line
                   /\ w.ctx_b = <<ThreadCtx(state.active[t]), ThreadCtx(NewThread)>>
          /\ \A w \in warnings' \ warnings :
                \E t \in DOMAIN state.active :
                   IF w.kind = "T vs T"
                   THEN /\ w.ctx_b = <<ThreadCtx(state.active[t]), ThreadCtx(NewThread)>>
                        /\ w.var \in Overlap(NewThread, state.active[t])
                   ELSE Against(w, state.active[t])
          /\ NewThread.thread_id \in DOMAIN state'.active
          /\ state'.active[NewThread.thread_id] = NewThread
          /\ CurStmt.handle # NoHandle =>
                state'.handle_env[CurStmt.handle] = {NewThread.thread_id}
      ]_vars

\* a Spawn has just been walked whose thread writes the handle and the variable of the
\* argument: the handle write, the argument read and the new thread each got a warning
\* with the thread spawned before, and the new thread is active
C29_Witness ==
    /\ PastStmt({"Spawn"})
    /\ LET s == CurFunc.body.stmts[si - 1]
           tid == ThreadId(CurFunc.name, tid_base(s), s.line)
       IN  /\ s.handle # NoHandle
           /\ tid \in DOMAIN state.active
           /\ s.handle \in state.active[tid].writes
           /\ state.handle_env[s.handle] = {tid}
           /\ \A tag \in {"W(handle) at spawn line", "R(arg) at spawn line",
                          "concurrent threads overlap starting at spawn line"} :
                 \E w \in warnings : w.ctx_a.tag = tag /\ w.line_a = s.line
           /\ \A w \in warnings : w.ctx_b[1] # ThreadCtx(state.active[tid])

\* the thread t of the state after has at least the footprint it has in the state before
FootprintGrows(before, after, t) ==
    /\ t \in DOMAIN after.active
    /\ before.active[t].reads \subseteq after.active[t].reads
    /\ before.active[t].writes \subseteq after.active[t].writes
    /\ \A v \in DOMAIN before.active[t].read_sites :
          before.active[t].read_sites[v] \subseteq get(after.active[t].read_sites, v)
    /\ \A v \in DOMAIN before.active[t].write_sites :
          before.active[t].write_sites[v] \subseteq get(after.active[t].write_sites, v)

(* C30: across a step of the walk over a statement other than an Await,    *)
(* a block being counted when it holds no Await, every thread of active    *)
(* stays in active, with a footprint and sites that include those it had.  *)
C30_OnlyAwaitShrinks ==
    [][(/\ AtStmt({"Assign", "AssignCall", "CallStmt", "Spawn", "Return", "Seq", "If",
                   "While"})
        /\ list_awaits(CurStmt) = <<>>) =>
          \A t \in DOMAIN state.active : FootprintGrows(state, state', t)]_vars

RECURSIVE IdLines(_)
RECURSIVE IdLinesOf(_)

IdLinesOf(stmts) ==
    IF stmts = <<>> THEN <<>> ELSE IdLines(Head(stmts)) \o IdLinesOf(Tail(stmts))

\* the lines of the spawns and calls the walk of stmt passes: the lines of the ids it makes
IdLines(stmt) ==
    CASE stmt.k \in {"Spawn", "CallStmt", "AssignCall"} -> <<stmt.line>>
      [] stmt.k = "Seq" -> IdLinesOf(stmt.stmts)
      [] stmt.k = "If" -> IdLines(stmt.then_s) \o IdLines(stmt.else_s)
      [] stmt.k = "While" -> IdLines(stmt.body)
      [] OTHER -> <<>>

\* the same, when no two spawns or calls of the function share a line
C30_OwnLines ==
    [][(/\ AtStmt({"Assign", "AssignCall", "CallStmt", "Spawn", "Return", "Seq", "If",
                   "While"})
        /\ Cardinality(Range(IdLines(CurFunc.body))) = Len(IdLines(CurFunc.body))
        /\ list_awaits(CurStmt) = <<>>) =>
          \A t \in DOMAIN state.active : FootprintGrows(state, state', t)]_vars

RECURSIVE Nested(_)
RECURSIVE NestedOf(_)
\* the statements a walk of stmts can reach, themselves included
NestedOf(stmts) ==
    IF stmts = <<>> THEN {} ELSE Nested(Head(stmts)) \cup NestedOf(Tail(stmts))

Nested(stmt) ==
    {stmt} \cup
    CASE stmt.k = "Seq" -> NestedOf(stmt.stmts)
      [] stmt.k = "If" -> Nested(stmt.then_s) \cup Nested(stmt.else_s)
      [] stmt.k = "While" -> Nested(stmt.body)
      [] OTHER -> {}

\* what the frame of the steps without concurrency allows between two states
FrameOf(s, before, after) ==
    /\ s.k \in {"Assign", "Return"} => after.active = before.active
    /\ s.k = "Return" => after.handle_env = before.handle_env
    /\ s.k = "Assign" =>
          /\ DOMAIN after.handle_env = DOMAIN before.handle_env
          /\ \A g \in DOMAIN before.handle_env :
                after.handle_env[g] = IF g = s.target THEN {} ELSE before.handle_env[g]
    /\ (s.k = "Await" /\ get(before.handle_env, s.handle) = {}) =>
          after.active = before.active

(* C31: an Assign or a Return leaves active as it was; a Return leaves     *)
(* handle_env as it was; an Assign changes handle_env at its target only,  *)
(* to the empty set, and adds no key; an Await of a handle bound to no     *)
(* thread leaves active as it was and the walk goes on.  It holds for the  *)
(* statement the walk steps over and for every statement of the body when  *)
(* it is walked from the state reached.                                    *)
C31_Frame ==
    [][AtStmt({"Assign", "Return", "Await", "Seq", "If", "While"}) =>
          /\ CurStmt.k \in {"Assign", "Return", "Await"} =>
                /\ FrameOf(CurStmt, state, state')
                /\ pc' = "walk"
                /\ error' = error
          /\ \A s \in NestedOf(CurFunc.body.stmts) :
                s.k \in {"Assign", "Return", "Await"} =>
                   FrameOf(s, state,
                           analyze_stmt(s, prog, effs, escapes, CurFunc, state,
                                        warnings).state)
      ]_vars

\* an Assign has been walked that emptied the binding of its target while the thread the
\* handle was bound to stays active
C31_Witness ==
    /\ PastStmt({"Assign"})
    /\ LET t == CurFunc.body.stmts[si - 1].target
       IN  /\ t \in DOMAIN state.handle_env
           /\ state.handle_env[t] = {}
           /\ \E s \in Range(CurFunc.body.stmts) :
                 /\ s.k = "Spawn"
                 /\ s.handle = t
                 /\ ThreadId(CurFunc.name, tid_base(s), s.line) \in DOMAIN state.active

\* an Await has been walked of a handle that was never bound, with a thread active
C31_WitnessAwait ==
    /\ PastStmt({"Await"})
    /\ joined = {}
    /\ state.active # EmptyDict
    /\ \A tid \in DOMAIN state.active :
          CurFunc.body.stmts[si - 1].handle \notin state.active[tid].writes

\* the threads of st installed at a call site for a spawn that escapes the callee
EscapedIn(st) == {t \in DOMAIN st.active : t.esc}

\* no binding of handle_env holds the id of an escaped thread
C32_NeverBound ==
    pc = "walk" =>
       \A st \in {state} \cup StatesWithin :
          \A h \in DOMAIN st.handle_env : \A t \in st.handle_env[h] : ~t.esc

(* C32: an escaped thread installed at a call site is bound to no handle,  *)
(* and across every later step of the caller's walk, an Await included, it *)
(* stays in active with the footprint and the sites it was installed with, *)
(* so that the later accesses are checked against it.                      *)
C32_EscapedStaysActive ==
    [][AtStmt({"Assign", "AssignCall", "CallStmt", "Spawn", "Await", "Return", "Seq",
               "If", "While"}) =>
          /\ C32_NeverBound
          /\ \A t \in EscapedIn(state) : FootprintGrows(state, state', t)]_vars

\* the same, when no two spawns or calls of the function share a line
C32_OwnLines ==
    [][(/\ AtStmt({"Assign", "AssignCall", "CallStmt", "Spawn", "Await", "Return", "Seq",
                   "If", "While"})
        /\ Cardinality(Range(IdLines(CurFunc.body))) = Len(IdLines(CurFunc.body))) =>
          /\ C32_NeverBound
          /\ \A t \in EscapedIn(state) : FootprintGrows(state, state', t)]_vars

\* h = f(...) has installed an escaped thread and await h has been walked: the thread is
\* still active and nothing was joined
C32_AwaitedResult ==
    /\ PastStmt({"Await"})
    /\ joined = {}
    /\ \E s \in Range(CurFunc.body.stmts) :
          /\ s.k = "AssignCall"
          /\ s.target = CurFunc.body.stmts[si - 1].handle
          /\ \E t \in EscapedIn(state) : t.call = s.line

\* the functions the statements of body call with a call statement
Called(body) ==
    {s.func : s \in {n \in Nested(body) : n.k \in {"CallStmt", "AssignCall"}}}

\* the threads that escape a function are those of the spawns written in its own body
OwnSpawnsOnly ==
    \A g \in DOMAIN escapes : \A t \in Range(escapes[g]) :
       /\ t.thread_id.fn = g
       /\ ~t.thread_id.esc
       /\ \E s \in Range(list_spawns(FuncDef(prog, g).body)) :
             s.handle = t.thread_id.base /\ s.line = t.thread_id.line

(* C33: escapes[g] holds only threads of the spawns written in the body of *)
(* g; a call installs the threads of escapes of its callee and no other,   *)
(* so every escaped thread active in a walk comes from a spawn written in  *)
(* a function the walked function calls itself, and every warning against  *)
(* an escaped thread names a spawn of a function called by a function      *)
(* walked so far.                                                          *)
C33_OneLevel ==
    pc = "walk" /\ fi \in 1..Len(prog) =>
       /\ OwnSpawnsOnly
       /\ \A st \in {state} \cup StatesWithin : \A t \in EscapedIn(st) :
             \E s \in Nested(CurFunc.body) :
                /\ s.k \in {"CallStmt", "AssignCall"}
                /\ s.func = t.fn
                /\ s.line = t.call
       /\ \A w \in warnings : \A c \in Range(w.ctx_b) :
             c.desc.tag = "escaped spawn" =>
                \E i \in 1..fi : c.desc.fn \in Called(prog[i].body)

\* main has called g, g calls a function whose spawn escapes, escapes[g] is empty; the
\* assignment after the call reads what that thread writes: no thread is active and no
\* warning was made
C33_Witness ==
    /\ PastStmt({"Assign"})
    /\ fi = 1
    /\ state.active = EmptyDict
    /\ warnings = {}
    /\ \E g \in Called(CurFunc.body) :
          /\ escapes[g] = <<>>
          /\ \E f \in Called(FuncDef(prog, g).body) : \E t \in Range(escapes[f]) :
                \E a \in Accesses(CurFunc.body.stmts[si - 1]) : a.reads \cap t.writes # {}

RECURSIVE Within(_)
RECURSIVE WithinOf(_)
\* every statement written in stmts, those of the bodies of spawn blocks included
WithinOf(stmts) ==
    IF stmts = <<>> THEN {} ELSE Within(Head(stmts)) \cup WithinOf(Tail(stmts))

Within(stmt) ==
    {stmt} \cup
    CASE stmt.k = "Seq" -> WithinOf(stmt.stmts)
      [] stmt.k = "If" -> Within(stmt.then_s) \cup Within(stmt.else_s)
      [] stmt.k = "While" -> Within(stmt.body)
      [] stmt.k = "Spawn" ->
           IF stmt.target.k = "SpawnBlock" THEN Within(stmt.target.body) ELSE {}
      [] OTHER -> {}

\* the walk stands at a Spawn of a block
AtSpawnBlock == AtStmt({"Spawn"}) /\ CurStmt.target.k = "SpawnBlock"

ThreadsKnown ==
    {state.active[t] : t \in DOMAIN state.active}
        \cup joined
        \cup UNION {Range(escapes[g]) : g \in DOMAIN escapes}

\* the variables two footprints both access, one of them at least writing
SharedWritten(A, B) ==
    {v \in (A.reads \cup A.writes) \cap (B.reads \cup B.writes) : v \in A.writes \cup B.writes}

\* the lines at which the footprint reads or writes v
SitesOf(A, v) == get(A.read_sites, v) \cup get(A.write_sites, v)

\* the sequence is strictly increasing
Increasing(seq) == \A i \in 1..Len(seq), j \in 1..Len(seq) : i < j => seq[i] < seq[j]

(* C35: for any two thread footprints A and B the variables flagged by     *)
(* check_thread_thread(A, B) are those flagged by check_thread_thread(B,   *)
(* A), namely the variables both access with one of them writing, with one *)
(* warning a variable; the lines_b of a warning are the sites of its       *)
(* variable in both footprints, in increasing order.                       *)
C35_ThreadThreadSymmetric ==
    \A A \in ThreadsKnown, B \in ThreadsKnown :
       LET ab == check_thread_thread(A, B, 1)
           ba == check_thread_thread(B, A, 1)
       IN  /\ {w.var : w \in ab} = SharedWritten(A, B)
           /\ {w.var : w \in ba} = SharedWritten(A, B)
           /\ Cardinality(ab) = Cardinality(SharedWritten(A, B))
           /\ Cardinality(ba) = Cardinality(ab)
           /\ \A w \in ab \cup ba :
                 /\ Range(w.lines_b) = SitesOf(A, w.var) \cup SitesOf(B, w.var)
                 /\ Increasing(w.lines_b)
                 /\ w.kind = "T vs T"

\* a Spawn has been walked whose thread only reads a variable that an older active thread
\* writes: the warning set holds the T vs T warning for it, with the lines of both threads
C35_Witness ==
    /\ PastStmt({"Spawn"})
    /\ \E a \in DOMAIN state.active, b \in DOMAIN state.active :
          LET A == state.active[a]
              B == state.active[b]
          IN  /\ a # b
              /\ B.thread_id = ThreadId(CurFunc.name, tid_base(CurFunc.body.stmts[si - 1]),
                                        CurFunc.body.stmts[si - 1].line)
              /\ \E w \in warnings :
                    /\ w.kind = "T vs T"
                    /\ w.ctx_b = <<ThreadCtx(A), ThreadCtx(B)>>
                    /\ w.var \in (B.reads \ B.writes) \cap (A.writes \ A.reads)
                    /\ w \in check_thread_thread(B, A, w.line_a)
                    /\ Len(w.lines_b) >= 2

\* the warnings of the walk of one function from an empty state, added to ws
WalkOf(fdef, ws) ==
    analyze_stmt(fdef.body, prog, effs, escapes, fdef, ConcurState, ws).warnings

RECURSIVE WalkAll(_, _)
\* the loop of analyze_program over the functions taken in the order given
WalkAll(order, ws) ==
    IF order = <<>> THEN ws
    ELSE WalkAll(Tail(order), WalkOf(prog[Head(order)], ws))

\* the orders in which the functions of the program can be walked
Orders == {o \in [1..Len(prog) -> 1..Len(prog)] : \A i, j \in 1..Len(prog) :
                                                       o[i] = o[j] => i = j}

\* the most functions a program has for every order of their walks to be tried
MaxOrdered == 4

(* C36: once the walk of a function is over, the warning set is the union  *)
(* of what the walk of each function walked so far gives alone, from an    *)
(* empty state and an empty warning set; after the last walk it is the set *)
(* the walks made in any other order of the functions give, and the list   *)
(* returned holds exactly the warnings of that set.                        *)
C36_WalkOrder ==
    /\ (pc = "walk" /\ fi \in 1..Len(prog) /\ si > Len(CurFunc.body.stmts)) =>
          /\ warnings = UNION {WalkOf(prog[i], {}) : i \in 1..fi}
          /\ (fi = Len(prog) /\ Len(prog) <= MaxOrdered) =>
                \A o \in Orders : WalkAll(o, {}) = warnings
    /\ pc = "done" => Range(result) = warnings

\* the run is over; the walk of main left a thread active and two functions, walked
\* alone, each give warnings the other does not give
C36_Witness ==
    /\ pc = "done"
    /\ Len(prog) \in 2..MaxOrdered
    /\ analyze_stmt(prog[1].body, prog, effs, escapes, prog[1], ConcurState,
                    {}).state.active # EmptyDict
    /\ \E i \in 1..Len(prog), j \in 1..Len(prog) :
          /\ WalkOf(prog[i], {}) \ WalkOf(prog[j], {}) # {}
          /\ WalkOf(prog[j], {}) \ WalkOf(prog[i], {}) # {}

RECURSIVE Summaries(_, _, _)
(* compute_function_effects with the functions visited in the order of    *)
(* fdefs: the summaries returned, the passes made, and whether a pass      *)
(* that changed nothing ended the loop.                                    *)
Summaries(fdefs, es, n) ==
    IF n = MaxIter THEN [effs |-> es, passes |-> n, converged |-> FALSE]
    ELSE LET r == effects_pass(fdefs, prog, es, FALSE)
         IN  IF ~r.changed THEN [effs |-> r.effs, passes |-> n + 1, converged |-> TRUE]
             ELSE Summaries(fdefs, r.effs, n + 1)

\* the functions of the program in the order o
Ordered(o) == [i \in 1..Len(prog) |-> prog[o[i]]]

\* the run has left the fixed-point loop through a pass that changed nothing
Converged == pc = "escapes" /\ ~changed

(* C37: when the loop of compute_function_effects ended on a pass without  *)
(* change, visiting the functions in any other order in which it also ends *)
(* so returns the same summary for every function.                         *)
C37_VisitOrder ==
    (Converged /\ Len(prog) <= MaxOrdered) =>
       \A o \in Orders :
          LET r == Summaries(Ordered(o), [name \in FuncNames(prog) |-> Effect], 0)
          IN  r.converged =>
                 /\ DOMAIN r.effs = DOMAIN effs
                 /\ \A name \in DOMAIN effs : r.effs[name] = effs[name]

\* the loop ended after three passes or more on a program whose functions, visited in
\* another order, give the same summaries in fewer passes, a caller having in its summary
\* a line of a function it calls
C37_Witness ==
    /\ Converged
    /\ Len(prog) \in 2..MaxOrdered
    /\ iter >= 3
    /\ \E o \in Orders :
          LET r == Summaries(Ordered(o), [name \in FuncNames(prog) |-> Effect], 0)
          IN  r.converged /\ r.passes < iter /\ r.effs = effs
    /\ \E i \in 1..Len(prog) : \E v \in DOMAIN effs[prog[i].name].write_sites :
          \E ln \in effs[prog[i].name].write_sites[v] :
             \E j \in 1..Len(prog) : j # i /\ prog[j].line = ln

\* the footprints with which the call the walk stands at installs the escaped threads of
\* its callee
InjectedFootprints ==
    {substitute_effect([reads |-> t.reads, writes |-> t.writes,
                        read_sites |-> t.read_sites, write_sites |-> t.write_sites],
                       FuncDef(prog, CurStmt.func), CurStmt.args) :
        t \in Range(escapes_get(escapes, CurStmt.func))}

\* the effect of the callee the call the walk stands at is checked with
CheckedEffect ==
    substitute_effect(effs[CurStmt.func], FuncDef(prog, CurStmt.func), CurStmt.args)

\* the call subsumes the escaped threads it installs
Subsumes ==
    \A T \in InjectedFootprints :
       /\ EffectLeq(T, CheckedEffect)
       /\ \A a \in DOMAIN state.active : \A v \in SharedWritten(T, state.active[a]) :
             \E w \in warnings' :
                /\ w.var = v
                /\ w.kind # "T vs T"
                /\ w.ctx_a.tag = "during call from"
                /\ w.ctx_a.line = CurStmt.line
                /\ Against(w, state.active[a])

(* C38: the footprint of every escaped thread a call installs is within    *)
(* the substituted effect of the callee the call is checked with, and for  *)
(* every variable such a thread shares with a thread active before the     *)
(* call, one of the two writing it, the call statement has an              *)
(* access-vs-thread warning against the active thread.                     *)
C38_CallSubsumesInjection ==
    [][AtStmt({"CallStmt", "AssignCall"}) => Subsumes]_vars

\* the same, when the summaries the loop returned are a fixed point
C38_AtFixedPoint ==
    [][(AtStmt({"CallStmt", "AssignCall"}) /\ IsFixedPoint) => Subsumes]_vars

\* a call has been walked that installed an escaped thread sharing a written variable with
\* a thread active before it, and the warning of the call against that thread is there
C38_Reported ==
    /\ PastStmt({"CallStmt", "AssignCall"})
    /\ IsFixedPoint
    /\ LET s == CurFunc.body.stmts[si - 1]
       IN  \E a \in DOMAIN state.active, b \in EscapedIn(state) :
              /\ ~a.esc
              /\ b.call = s.line
              /\ \E v \in SharedWritten(state.active[a], state.active[b]) :
                    \E w \in warnings :
                       /\ w.var = v
                       /\ w.ctx_a.tag = "during call from"
                       /\ w.ctx_a.line = s.line
                       /\ Against(w, state.active[a])
====
